---- MODULE Spec2Model ----
(***************************************************************************)
(* A model of the note synchronisation engine of wspace: the catalog      *)
(* (Note and Folder records), the remote store (Google Drive) and the     *)
(* request handlers that reconcile them.                                  *)
(*                                                                         *)
(* Conventions.  A nullable column or argument holds 0 for None: catalog  *)
(* and remote ids start at 1 and Python's truth tests (`if parent_id:`)   *)
(* treat 0 and None alike.  A timestamp is a record [t, aware]: t = 0 is  *)
(* None, and aware tells whether the datetime object carries a tzinfo.    *)
(***************************************************************************)
EXTENDS Integers, Sequences, FiniteSets, TLC

VARIABLES
    notes,      \* committed Note rows: id -> record
    folders,    \* committed Folder rows: id -> record
    drive,      \* the remote store: [folders, files, nextFolder, nextFile, clock]
    connected,  \* session['gdrive_credentials'] is set (user SyncUser)
    run,        \* the sync request in progress (its loop position and locals)
    last,       \* the last request handled and what it answered
    mirror      \* the user's notes_location and the files below it: [location, files]

vars == <<notes, folders, drive, connected, run, last, mirror>>

(***************************************************************************)
(* Bounds of the model and input domains.                                  *)
(***************************************************************************)
MaxNotes == 2
MaxFolders == 3
MaxRemoteFolders == 3
MaxRemoteFiles == 2
MaxTime == 2

Users == {1, 2}
SyncUser == 1
Titles == {"a", "b"}
Contents == {"x", "y"}
FileTypes == {"md", "txt"}
FolderNames == {"A", "B"}

None == 0
NoTime == [t |-> 0, aware |-> FALSE]

(***************************************************************************)
(* Generic helpers.                                                        *)
(***************************************************************************)
Max(S) == CHOOSE m \in S : \A x \in S : x <= m

\* str.endswith
EndsWith(s, suffix) ==
    /\ Len(s) >= Len(suffix)
    /\ SubSeq(s, Len(s) - Len(suffix) + 1, Len(s)) = suffix

\* s[:-k]
DropLast(s, k) == SubSeq(s, 1, Len(s) - k)

\* the primary key of a new row: SQLite gives an INTEGER PRIMARY KEY column
\* max(rowid) + 1
NextId(table) == IF DOMAIN table = {} THEN 1 ELSE Max(DOMAIN table) + 1

\* session.delete(row)
DeleteRow(table, id) == [i \in DOMAIN table \ {id} |-> table[i]]

(***************************************************************************)
(* Timestamps.  parse_drive_time returns an aware datetime (the 'Z' is     *)
(* rewritten to '+00:00'), and so does datetime.now(timezone.utc).  The    *)
(* gdrive_modified column is a DateTime without timezone: a commit writes  *)
(* the wall-clock fields only, and a row read back holds a naive datetime. *)
(***************************************************************************)
Aware(t) == [t |-> t, aware |-> TRUE]

\* modifiedTime of a listing entry: 0 stands for a missing or unparseable string
parse_drive_time(time_str) == IF time_str = 0 THEN NoTime ELSE Aware(time_str)

\* what the DateTime column gives back for a stored value
StoredTime(v) == [t |-> v.t, aware |-> FALSE]

\* `drive_modified <= note.gdrive_modified` on two datetimes: Python raises
\* TypeError when exactly one of them is aware
\* a variant in which datetimes of both kinds compare
TimeCompareRaises_never(a, b) == FALSE

TimeCompareRaises(a, b) == a.aware # b.aware
TimeLeq(a, b) == a.t <= b.t

(***************************************************************************)
(* Catalog records.                                                        *)
(***************************************************************************)
NewFolderRow(name, parent_id, user_id) ==
    [name |-> name, parent_id |-> parent_id, gdrive_id |-> None, user_id |-> user_id]

NewNoteRow(title, content, file_type, folder_id, user_id) ==
    [title |-> title, content |-> content, file_type |-> file_type,
     folder_id |-> folder_id, gdrive_id |-> None, gdrive_modified |-> NoTime,
     sync_status |-> "local", user_id |-> user_id]

\* Folder.parent / Note.folder: the row the foreign key names, None when there
\* is no such row (SQLite does not enforce the key)
Related(f, id) == IF id \in DOMAIN f THEN id ELSE None

\* The ids visited by `current = folder; while current: ...; current =
\* current.parent`; the walk of a cyclic chain never ends, which the marker -1
\* at the end of the sequence stands for.
RECURSIVE ParentWalk(_, _, _)
ParentWalk(f, id, seen) ==
    IF id = None THEN <<>>
    ELSE IF id \in seen THEN <<-1>>
    ELSE <<id>> \o ParentWalk(f, Related(f, f[id].parent_id), seen \cup {id})

WalkEnds(f, id) == \A i \in DOMAIN ParentWalk(f, id, {}) : ParentWalk(f, id, {})[i] # -1

\* path.insert(0, current.name) for every folder of the walk
get_folder_path(f, id) ==
    LET w == ParentWalk(f, id, {})
    IN  [i \in 1..Len(w) |-> f[w[Len(w) + 1 - i]].name]

\* a faulty variant of Filename: the file type is left out
Filename_bare(note) == note.title

\* f"{note.title}.{note.file_type}"
Filename(note) == note.title \o "." \o note.file_type

(***************************************************************************)
(* services/file_storage.py.  The files below the user's notes_location:   *)
(* path -> content.                                                        *)
(***************************************************************************)
\* os.path.join(folder_path, filename), the folder's path from the base
RECURSIVE Join(_)
Join(parts) == IF parts = <<>> THEN "" ELSE Head(parts) \o "/" \o Join(Tail(parts))

FilePath(f, note) == Join(get_folder_path(f, Related(f, note.folder_id))) \o Filename(note)

\* FileStorageService.save_note: the file is written, or replaced
save_note(files, f, note) ==
    [p \in DOMAIN files \cup {FilePath(f, note)} |->
        IF p = FilePath(f, note) THEN note.content ELSE files[p]]

\* the loop of sync_all_notes: the notes are saved one after another;
\* `synced += 1` follows a save that returned, and a save that raises is
\* passed over.  The set of the possible results [files, synced, saved],
\* where saved names the notes whose save returned.
RECURSIVE SaveEach(_, _, _, _)
SaveEach(r, n, f, ids) ==
    IF ids = {} THEN {r}
    ELSE UNION {SaveEach([files |-> save_note(r.files, f, n[i]), synced |-> r.synced + 1,
                          saved |-> r.saved \cup {i}], n, f, ids \ {i})
                   \cup SaveEach(r, n, f, ids \ {i}) : i \in ids}

\* a variant that counts a note before it is saved
sync_all_notes_counts_all(files, n, f, ids) ==
    {[r EXCEPT !.synced = Cardinality(ids)] :
        r \in SaveEach([files |-> files, synced |-> 0, saved |-> {}], n, f, ids)}

\* FileStorageService.sync_all_notes: synced = 0, the loop, return synced
sync_all_notes(files, n, f, ids) ==
    SaveEach([files |-> files, synced |-> 0, saved |-> {}], n, f, ids)

\* routes/sync.py save_notes_to_filesystem, and the same lines of full_sync:
\* nothing is written for a user without notes_location
save_notes_to_filesystem(m, n, f, ids) ==
    IF m.location
    THEN {[m EXCEPT !.files = r.files] : r \in sync_all_notes(m.files, n, f, ids)}
    ELSE {m}

(***************************************************************************)
(* Requests and answers.  `last` keeps what the last request was and what  *)
(* the handler answered; `calls` are the remote calls it issued, in order. *)
(***************************************************************************)
Answer(op, user, id, arg, status, calls) ==
    [op |-> op, user |-> user, id |-> id, arg |-> arg, status |-> status, calls |-> calls]

Idle == [pc |-> "idle"]

(***************************************************************************)
(* routes/folders.py                                                       *)
(***************************************************************************)
\* Folder.query.filter_by(id=..., user_id=g.user.id).first()
OwnFolder(f, user, id) == IF id \in DOMAIN f /\ f[id].user_id = user THEN id ELSE None
OwnNote(n, user, id) == IF id \in DOMAIN n /\ n[id].user_id = user THEN id ELSE None

create_folder(user, name, parent_id) ==
    /\ run = Idle
    /\ NextId(folders) <= MaxFolders
    /\ folders' = folders @@ (NextId(folders) :> NewFolderRow(name, parent_id, user))
    /\ last' = Answer("create_folder", user, NextId(folders), parent_id, "201", <<>>)
    /\ UNCHANGED <<notes, drive, connected, run, mirror>>

rename_folder(user, folder_id, name) ==
    /\ run = Idle
    /\ OwnFolder(folders, user, folder_id) # None
    /\ folders' = [folders EXCEPT ![folder_id].name = name]
    /\ last' = Answer("rename_folder", user, folder_id, 0, "200", <<>>)
    /\ UNCHANGED <<notes, drive, connected, run, mirror>>

\* `while current: if current.id == folder_id: return 400; current = current.parent`
\* started at the requested parent, looked up among the user's own folders
MoveRejected(f, user, folder_id, new_parent_id) ==
    /\ new_parent_id # None
    /\ \E i \in DOMAIN ParentWalk(f, OwnFolder(f, user, new_parent_id), {}) :
          ParentWalk(f, OwnFolder(f, user, new_parent_id), {})[i] = folder_id

\* the walk neither meets folder_id nor ends: the request never answers
MoveHangs(f, user, folder_id, new_parent_id) ==
    /\ new_parent_id # None
    /\ ~MoveRejected(f, user, folder_id, new_parent_id)
    /\ ~WalkEnds(f, OwnFolder(f, user, new_parent_id))

move_folder(user, folder_id, new_parent_id) ==
    /\ run = Idle
    /\ OwnFolder(folders, user, folder_id) # None
    /\ ~MoveHangs(folders, user, folder_id, new_parent_id)
    /\ IF MoveRejected(folders, user, folder_id, new_parent_id)
       THEN /\ last' = Answer("move_folder", user, folder_id, new_parent_id, "400", <<>>)
            /\ UNCHANGED folders
       ELSE /\ folders' = [folders EXCEPT ![folder_id].parent_id = new_parent_id]
            /\ last' = Answer("move_folder", user, folder_id, new_parent_id, "200", <<>>)
    /\ UNCHANGED <<notes, drive, connected, run, mirror>>

\* Note.query.filter_by(folder_id=..., user_id=...).update({'folder_id': None})
NotesMovedToRoot(n, user, folder_id) ==
    [i \in DOMAIN n |->
        IF n[i].folder_id = folder_id /\ n[i].user_id = user
        THEN [n[i] EXCEPT !.folder_id = None]
        ELSE n[i]]

\* Folder.query.filter_by(parent_id=..., user_id=...).update({'parent_id': folder.parent_id})
SubfoldersMovedUp(f, user, folder_id) ==
    [i \in DOMAIN f |->
        IF f[i].parent_id = folder_id /\ f[i].user_id = user
        THEN [f[i] EXCEPT !.parent_id = f[folder_id].parent_id]
        ELSE f[i]]

\* db.session.delete(folder): Folder.children and Folder.notes are
\* relationships without a delete cascade, so the flush sets the foreign key
\* of every row still related to the deleted folder to NULL
NotesOrphaned(n, folder_id) ==
    [i \in DOMAIN n |->
        IF n[i].folder_id = folder_id THEN [n[i] EXCEPT !.folder_id = None] ELSE n[i]]

FolderDeleted(f, folder_id) ==
    DeleteRow([i \in DOMAIN f |->
                  IF f[i].parent_id = folder_id THEN [f[i] EXCEPT !.parent_id = None] ELSE f[i]],
              folder_id)

delete_folder(user, folder_id) ==
    /\ run = Idle
    /\ OwnFolder(folders, user, folder_id) # None
    /\ notes' = NotesOrphaned(NotesMovedToRoot(notes, user, folder_id), folder_id)
    /\ folders' = FolderDeleted(SubfoldersMovedUp(folders, user, folder_id), folder_id)
    /\ last' = Answer("delete_folder", user, folder_id, 0, "204", <<>>)
    /\ UNCHANGED <<drive, connected, run, mirror>>

(***************************************************************************)
(* services/gdrive_service.py.  The remote store holds folders             *)
(* id -> [name, parent] (parent 0: the Drive root) and files               *)
(* id -> [name, parents, content, modifiedTime, mimeType]; the ids the     *)
(* store gives out are 1, 2, ... for folders and MaxRemoteFolders + 1, ... *)
(* for files.  A service                                                   *)
(* value s = [d, budget, ok, calls] threads the store through the calls of *)
(* one handler: every request to the API spends one unit of budget and     *)
(* the request made with none left raises (network or API error), after    *)
(* which ok is FALSE and nothing more is done.  Operations with several    *)
(* possible results return the set of them.                                *)
(***************************************************************************)
GDOC == "application/vnd.google-apps.document"

\* one request to the API; remove holds the removeParents of an update
Call(op, name, id, parent) ==
    [op |-> op, name |-> name, id |-> id, parent |-> parent, remove |-> {}]

GDriveService(d, budget) == [d |-> d, budget |-> budget, ok |-> TRUE, calls |-> <<>>]

\* the request is made and answered
Spend(s, call) == [s EXCEPT !.budget = @ - 1, !.calls = Append(@, call)]

\* the request is made and raises
Raise(s, call) == [s EXCEPT !.ok = FALSE, !.calls = Append(@, call)]

\* a budget no push uses up, so that no request fails: two requests for the
\* Notes folder, two for each folder of the note's path and two for the file
NoFailure(f) == 2 * Cardinality(DOMAIN f) + 4

\* a faulty variant of FolderMatches: the lookup never finds a folder
FolderMatches_none(d, name, parent_id) == {}

\* files().list(q="name=... and mimeType=folder and '<parent>' in parents")
FolderMatches(d, name, parent_id) ==
    {i \in DOMAIN d.folders : d.folders[i].name = name /\ d.folders[i].parent = parent_id}

\* the remote store after files().create of a folder
FolderCreated(d, name, parent_id) ==
    [d EXCEPT !.folders = @ @@ (d.nextFolder :> [name |-> name, parent |-> parent_id]),
              !.nextFolder = @ + 1]

\* the id of the next file the store creates
NewFileId(d) == MaxRemoteFolders + d.nextFile

\* results [s, id]; files[0] is any of the matches when the store holds several
get_or_create_folder(s, name, parent_id) ==
    IF ~s.ok THEN {[s |-> s, id |-> None]}
    ELSE IF s.budget = 0 THEN {[s |-> Raise(s, Call("list", name, 0, parent_id)), id |-> None]}
    ELSE LET s1 == Spend(s, Call("list", name, 0, parent_id))
             files == FolderMatches(s.d, name, parent_id)
         IN  IF files # {} THEN {[s |-> s1, id |-> i] : i \in files}
             ELSE IF s1.budget = 0
             THEN {[s |-> Raise(s1, Call("create_folder", name, 0, parent_id)), id |-> None]}
             ELSE IF s1.d.nextFolder > MaxRemoteFolders THEN {}
             ELSE {[s |-> [Spend(s1, Call("create_folder", name, s1.d.nextFolder, parent_id))
                              EXCEPT !.d = FolderCreated(s1.d, name, parent_id)],
                    id |-> s1.d.nextFolder]}

get_or_create_notes_folder(s) == get_or_create_folder(s, "Notes", None)

RECURSIVE get_or_create_folder_path(_, _, _)
get_or_create_folder_path(s, folder_path, current_parent) ==
    IF folder_path = <<>> \/ ~s.ok THEN {[s |-> s, id |-> current_parent]}
    ELSE UNION {get_or_create_folder_path(r.s, Tail(folder_path), r.id) :
                   r \in get_or_create_folder(s, Head(folder_path), current_parent)}

MimeOf(filename) == IF EndsWith(filename, ".md") THEN "text/markdown" ELSE "text/plain"

\* results [s, id]
upload_file(s, content, filename, folder_id) ==
    IF ~s.ok THEN {[s |-> s, id |-> None]}
    ELSE IF s.budget = 0 THEN {[s |-> Raise(s, Call("upload", filename, 0, folder_id)), id |-> None]}
    ELSE IF s.d.nextFile > MaxRemoteFiles THEN {}
    ELSE {[s |-> [Spend(s, Call("upload", filename, NewFileId(s.d), folder_id))
                     EXCEPT !.d.files = @ @@ (NewFileId(s.d) :>
                                [name |-> filename, parents |-> {folder_id},
                                 content |-> content, modifiedTime |-> s.d.clock,
                                 mimeType |-> MimeOf(filename)]),
                            !.d.nextFile = @ + 1],
           id |-> NewFileId(s.d)]}

\* a faulty variant of ParentsAfterUpdate: addParents without removeParents
ParentsAdded(previous_parents, new_folder_id) == {previous_parents \cup {new_folder_id}}

\* The parents of a file after files().update(addParents=new,
\* removeParents=previous).  When the new parent is one of the previous ones
\* the API documents no order of the two edits: the file keeps the parent or
\* ends with none.
ParentsAfterUpdate(previous_parents, new_folder_id) ==
    IF new_folder_id \in previous_parents
    THEN {{new_folder_id}, {}}
    ELSE {{new_folder_id}}

\* results s; the callers always pass new_folder_id
update_file(s, file_id, content, filename, new_folder_id) ==
    IF ~s.ok THEN {s}
    ELSE IF s.budget = 0 \/ file_id \notin DOMAIN s.d.files
    THEN {Raise(s, Call("get", "", file_id, 0))}
    ELSE LET s1 == Spend(s, Call("get", "", file_id, 0))
             previous_parents == s.d.files[file_id].parents
             update == [Call("update", filename, file_id, new_folder_id)
                           EXCEPT !.remove = previous_parents]
         IN  IF s1.budget = 0 THEN {Raise(s1, update)}
             ELSE {[Spend(s1, update)
                       EXCEPT !.d.files[file_id] =
                                [name |-> filename, parents |-> p, content |-> content,
                                 modifiedTime |-> s.d.clock, mimeType |-> MimeOf(filename)]] :
                   p \in ParentsAfterUpdate(previous_parents, new_folder_id)}

\* results [s, content]
download_file(s, file_id, mime_type) ==
    IF ~s.ok THEN {[s |-> s, content |-> ""]}
    ELSE IF s.budget = 0 \/ file_id \notin DOMAIN s.d.files
    THEN {[s |-> Raise(s, Call("download", "", file_id, 0)), content |-> ""]}
    ELSE {[s |-> Spend(s, Call(IF mime_type = GDOC THEN "export" ELSE "download", "", file_id, 0)),
           content |-> s.d.files[file_id].content]}

(***************************************************************************)
(* The push of one note, as auto_sync_note, sync_all, full_sync and        *)
(* sync_note all write it.  n and f are the Note and Folder objects of the *)
(* handler's database session.                                             *)
(***************************************************************************)
\* a variant whose column keeps the time zone of the value written
Commit_keeps_zone(n) == n

\* db.session.commit(): the rows are written and the session's objects expire
Commit(n) == [i \in DOMAIN n |-> [n[i] EXCEPT !.gdrive_modified = StoredTime(@)]]

\* results [s, f, id]: the Drive folder the note belongs in.  A folder chain
\* that is a cycle keeps get_folder_path looping: no result.
TargetFolder(s, f, note, root_folder_id) ==
    LET folder == Related(f, note.folder_id)
    IN  IF folder = None THEN {[s |-> s, f |-> f, id |-> root_folder_id]}
        ELSE IF ~WalkEnds(f, folder) THEN {}
        ELSE {[s |-> r.s,
               f |-> IF r.s.ok /\ f[folder].gdrive_id = None
                     THEN [f EXCEPT ![folder].gdrive_id = r.id]
                     ELSE f,
               id |-> r.id] :
              r \in get_or_create_folder_path(s, get_folder_path(f, folder), root_folder_id)}

\* note.sync_status = 'synced'; note.gdrive_modified = datetime.now(timezone.utc)
\* (auto_sync_note leaves gdrive_modified alone: stamp = FALSE)
MarkSynced(n, id, stamp, now) ==
    [n EXCEPT ![id].sync_status = "synced",
              ![id].gdrive_modified = IF stamp THEN Aware(now) ELSE @]

\* a faulty variant of SendNote: the note is marked synced whether or not the
\* upload returned
SendNote_unchecked(s, n, f, id, target_folder_id, stamp) ==
    IF n[id].gdrive_id # None
    THEN {[s |-> s2,
           n |-> IF s2.ok THEN MarkSynced(n, id, stamp, s.d.clock) ELSE n,
           f |-> f] :
          s2 \in update_file(s, n[id].gdrive_id, n[id].content, Filename(n[id]), target_folder_id)}
    ELSE {[s |-> r.s,
           n |-> MarkSynced([n EXCEPT ![id].gdrive_id = r.id], id, stamp, s.d.clock),
           f |-> f] :
          r \in upload_file(s, n[id].content, Filename(n[id]), target_folder_id)}

\* results [s, n, f]: update_file for a note that has a gdrive_id, upload_file
\* otherwise
SendNote(s, n, f, id, target_folder_id, stamp) ==
    IF ~s.ok THEN {[s |-> s, n |-> n, f |-> f]}
    ELSE IF n[id].gdrive_id # None
    THEN {[s |-> s2,
           n |-> IF s2.ok THEN MarkSynced(n, id, stamp, s.d.clock) ELSE n,
           f |-> f] :
          s2 \in update_file(s, n[id].gdrive_id, n[id].content, Filename(n[id]), target_folder_id)}
    ELSE {[s |-> r.s,
           n |-> IF r.s.ok
                 THEN MarkSynced([n EXCEPT ![id].gdrive_id = r.id], id, stamp, s.d.clock)
                 ELSE n,
           f |-> f] :
          r \in upload_file(s, n[id].content, Filename(n[id]), target_folder_id)}

PushNote(s, n, f, id, root_folder_id, stamp) ==
    UNION {SendNote(t.s, n, t.f, id, t.id, stamp) :
              t \in TargetFolder(s, f, n[id], root_folder_id)}

(***************************************************************************)
(* routes/notes.py                                                         *)
(***************************************************************************)
\* results [s, n, f, synced] of auto_sync_note(note) with the session's
\* credentials set; the except branch marks the note local and commits
auto_sync_note(d, n, f, id, budget) ==
    LET roots == get_or_create_notes_folder(GDriveService(d, budget))
        pushed == UNION {PushNote(r.s, n, f, id, r.id, FALSE) : r \in roots}
    IN  {[s |-> p.s,
          n |-> IF p.s.ok THEN Commit(p.n) ELSE Commit([p.n EXCEPT ![id].sync_status = "local"]),
          f |-> p.f,
          synced |-> p.s.ok] : p \in pushed}

\* session.get('gdrive_credentials') of the requesting user
HasCredentials(user) == user = SyncUser /\ connected

\* the handler's end: the note row n0 is committed, then auto_sync_note runs
SaveAndSync(op, user, id, n0) ==
    IF HasCredentials(user)
    THEN \E budget \in 0..NoFailure(folders) :
         \E r \in auto_sync_note(drive, n0, folders, id, budget) :
            /\ notes' = r.n
            /\ folders' = r.f
            /\ drive' = r.s.d
            /\ last' = Answer(op, user, id, 0, IF r.synced THEN "synced" ELSE "saved", r.s.calls)
    ELSE /\ notes' = n0
         /\ last' = Answer(op, user, id, 0, "saved", <<>>)
         /\ UNCHANGED <<folders, drive>>

new_note(user, title, content, file_type, folder_id) ==
    /\ run = Idle
    /\ NextId(notes) <= MaxNotes
    /\ SaveAndSync("new_note", user, NextId(notes),
                   notes @@ (NextId(notes) :> NewNoteRow(title, content, file_type, folder_id, user)))
    /\ UNCHANGED <<connected, run, mirror>>

edit_note(user, note_id, title, content, file_type, folder_id) ==
    /\ run = Idle
    /\ OwnNote(notes, user, note_id) # None
    /\ SaveAndSync("edit_note", user, note_id,
                   [notes EXCEPT ![note_id].title = title, ![note_id].content = content,
                                 ![note_id].file_type = file_type, ![note_id].folder_id = folder_id])
    /\ UNCHANGED <<connected, run, mirror>>

\* auto_delete_from_drive: the request may raise, which is logged and dropped
delete_note(user, note_id) ==
    /\ run = Idle
    /\ OwnNote(notes, user, note_id) # None
    /\ notes' = DeleteRow(notes, note_id)
    /\ IF HasCredentials(user) /\ notes[note_id].gdrive_id # None
       THEN \E deleted \in BOOLEAN :
              /\ deleted => notes[note_id].gdrive_id \in DOMAIN drive.files
              /\ drive' = IF deleted
                          THEN [drive EXCEPT !.files = DeleteRow(@, notes[note_id].gdrive_id)]
                          ELSE drive
              /\ last' = Answer("delete_note", user, note_id, 0, "200",
                                <<Call("delete", "", notes[note_id].gdrive_id, 0)>>)
       ELSE /\ last' = Answer("delete_note", user, note_id, 0, "200", <<>>)
            /\ UNCHANGED drive
    /\ UNCHANGED <<folders, connected, run, mirror>>

(***************************************************************************)
(* The recursive listing.  An entry is                                     *)
(* [id, name, mimeType, modifiedTime, is_folder, path]; a file with two    *)
(* parents is listed once under each.                                      *)
(***************************************************************************)
FOLDER_MIME == "application/vnd.google-apps.folder"

RECURSIVE list_all_files_recursive(_, _, _)
list_all_files_recursive(d, folder_id, path) ==
    LET ItemPath(name) == IF path = "" THEN name ELSE path \o "/" \o name
        files == {[id |-> i, name |-> d.files[i].name, mimeType |-> d.files[i].mimeType,
                   modifiedTime |-> d.files[i].modifiedTime, is_folder |-> FALSE,
                   path |-> ItemPath(d.files[i].name)] :
                  i \in {j \in DOMAIN d.files : folder_id \in d.files[j].parents}}
        subfolders == {j \in DOMAIN d.folders : d.folders[j].parent = folder_id}
    IN  files
        \cup {[id |-> j, name |-> d.folders[j].name, mimeType |-> FOLDER_MIME,
               modifiedTime |-> 0, is_folder |-> TRUE,
               path |-> ItemPath(d.folders[j].name)] : j \in subfolders}
        \cup UNION {list_all_files_recursive(d, j, ItemPath(d.folders[j].name)) :
                       j \in subfolders}

\* str.split('/')
RECURSIVE Split(_)
Split(str) ==
    LET slashes == {i \in 1..Len(str) : SubSeq(str, i, i) = "/"}
    IN  IF slashes = {} THEN <<str>>
        ELSE LET i == CHOOSE k \in slashes : \A m \in slashes : k <= m
             IN  <<SubSeq(str, 1, i - 1)>> \o Split(SubSeq(str, i + 1, Len(str)))

\* path.split('/')[:-1] if '/' in path else []
PathParts(path) == DropLast(Split(path), 1)

\* [title, file_type, ok]: the classification of pull_from_drive by file name
\* suffix, then by mime type
Classify(name, mime_type) ==
    IF EndsWith(name, ".md") THEN [title |-> DropLast(name, 3), file_type |-> "md", ok |-> TRUE]
    ELSE IF EndsWith(name, ".txt") THEN [title |-> DropLast(name, 4), file_type |-> "txt", ok |-> TRUE]
    ELSE IF mime_type = GDOC THEN [title |-> name, file_type |-> "md", ok |-> TRUE]
    ELSE [title |-> name, file_type |-> "md", ok |-> FALSE]

\* {n.gdrive_id: n for n in Note.query.filter_by(user_id=...).all() if n.gdrive_id}:
\* of several notes with one gdrive_id the dict keeps the last row read
existing_by_gdrive_id(n, user) ==
    [g \in {n[i].gdrive_id : i \in {j \in DOMAIN n : n[j].user_id = user /\ n[j].gdrive_id # None}} |->
        Max({i \in DOMAIN n : n[i].user_id = user /\ n[i].gdrive_id = g})]

\* a variant that never looks a folder up: every segment is a new row
RECURSIVE get_or_create_folder_by_path_fresh(_, _, _, _)
get_or_create_folder_by_path_fresh(f, path_parts, user_id, parent) ==
    IF path_parts = <<>> THEN [f |-> f, id |-> parent]
    ELSE get_or_create_folder_by_path_fresh(
             f @@ (NextId(f) :> NewFolderRow(Head(path_parts), parent, user_id)),
             Tail(path_parts), user_id, NextId(f))

\* [f, id]: routes/sync.py get_or_create_folder_by_path; .first() reads the
\* table in rowid order
RECURSIVE get_or_create_folder_by_path(_, _, _, _)
get_or_create_folder_by_path(f, path_parts, user_id, parent) ==
    IF path_parts = <<>> THEN [f |-> f, id |-> parent]
    ELSE LET found == {i \in DOMAIN f : /\ f[i].name = Head(path_parts)
                                        /\ f[i].parent_id = parent
                                        /\ f[i].user_id = user_id}
         IN  IF found # {}
             THEN get_or_create_folder_by_path(f, Tail(path_parts), user_id,
                      CHOOSE i \in found : \A j \in found : i <= j)
             ELSE get_or_create_folder_by_path(
                      f @@ (NextId(f) :> NewFolderRow(Head(path_parts), parent, user_id)),
                      Tail(path_parts), user_id, NextId(f))

(***************************************************************************)
(* One entry of the pull loop (pull_from_drive, auto_pull and the pull     *)
(* phase of full_sync share the body of the try).  Results                 *)
(* [s, n, f, how, note]: how is "skipped" (the timestamp test), "raised"   *)
(* (the comparison raised), "failed" (the download raised), "updated" or   *)
(* "imported".                                                             *)
(***************************************************************************)
PullResult(s, n, f, how, note) == [s |-> s, n |-> n, f |-> f, how |-> how, note |-> note]

PullExisting(s, n, f, item, c, id) ==
    LET drive_modified == parse_drive_time(item.modifiedTime)
        stored == n[id].gdrive_modified
    IN  IF stored.t # 0 /\ drive_modified.t # 0 /\ TimeCompareRaises(drive_modified, stored)
        THEN {PullResult(s, n, f, "raised", id)}
        ELSE IF stored.t # 0 /\ drive_modified.t # 0 /\ TimeLeq(drive_modified, stored)
        THEN {PullResult(s, n, f, "skipped", id)}
        ELSE {IF r.s.ok
              THEN PullResult(r.s,
                       [n EXCEPT ![id].title = c.title, ![id].content = r.content,
                                 ![id].file_type = c.file_type, ![id].sync_status = "synced",
                                 ![id].gdrive_modified = drive_modified],
                       f, "updated", id)
              ELSE PullResult(r.s, n, f, "failed", id) :
              r \in download_file(s, item.id, item.mimeType)}

\* a variant that gets or creates the local folders before it downloads
PullNew_folders_first(s, n, f, item, c, user) ==
    {LET local_folder == get_or_create_folder_by_path(f, PathParts(item.path), user, None)
         row == [NewNoteRow(c.title, r.content, c.file_type, local_folder.id, user)
                    EXCEPT !.gdrive_id = item.id,
                           !.gdrive_modified = parse_drive_time(item.modifiedTime),
                           !.sync_status = "synced"]
     IN  IF r.s.ok
         THEN PullResult(r.s, n @@ (NextId(n) :> row), local_folder.f, "imported", NextId(n))
         ELSE PullResult(r.s, n, local_folder.f, "failed", None) :
     r \in download_file(s, item.id, item.mimeType)}

\* a variant that keeps the row of an entry whose download raised
PullNew_partial(s, n, f, item, c, user) ==
    {LET local_folder == get_or_create_folder_by_path(f, PathParts(item.path), user, None)
         row == [NewNoteRow(c.title, IF r.s.ok THEN r.content ELSE "", c.file_type,
                            local_folder.id, user)
                    EXCEPT !.gdrive_id = item.id,
                           !.gdrive_modified = parse_drive_time(item.modifiedTime),
                           !.sync_status = "synced"]
     IN  PullResult(r.s, n @@ (NextId(n) :> row), local_folder.f,
                    IF r.s.ok THEN "imported" ELSE "failed", NextId(n)) :
     r \in download_file(s, item.id, item.mimeType)}

PullNew(s, n, f, item, c, user) ==
    {IF r.s.ok
     THEN LET local_folder == get_or_create_folder_by_path(f, PathParts(item.path), user, None)
              row == [NewNoteRow(c.title, r.content, c.file_type, local_folder.id, user)
                         EXCEPT !.gdrive_id = item.id,
                                !.gdrive_modified = parse_drive_time(item.modifiedTime),
                                !.sync_status = "synced"]
          IN  PullResult(r.s, n @@ (NextId(n) :> row), local_folder.f, "imported", NextId(n))
     ELSE PullResult(r.s, n, f, "failed", None) :
     r \in download_file(s, item.id, item.mimeType)}

PullItem(s, n, f, existing, item, user) ==
    LET c == Classify(item.name, item.mimeType)
    IN  IF item.id \in DOMAIN existing
        THEN PullExisting(s, n, f, item, c, existing[item.id])
        ELSE PullNew(s, n, f, item, c, user)

(***************************************************************************)
(* routes/sync.py.  A handler with a loop is a sequence of steps: `run`    *)
(* holds its position (pc), its local variables and the objects of its     *)
(* database session (n, f), and `step` describes the iteration just done.  *)
(* Requests are served one at a time: nothing else happens during a run.   *)
(***************************************************************************)
NoStep == [id |-> 0, how |-> "", calls |-> <<>>]

\* imported, updated, skipped, pushed: the handlers' counters; raised and
\* failed count the entries the except branch took
Counters == [imported |-> 0, updated |-> 0, skipped |-> 0, pushed |-> 0,
             raised |-> 0, failed |-> 0]

\* the handler's first requests: the Notes folder, then the recursive listing
\* (one unit of budget stands for the list requests of the whole tree, which
\* change nothing).  Results [s, root_folder_id, drive_files].
Scan(d, budget) ==
    {IF r.s.ok /\ r.s.budget > 0
     THEN [s |-> Spend(r.s, Call("list_all", "", r.id, 0)), root_folder_id |-> r.id,
           drive_files |-> list_all_files_recursive(r.s.d, r.id, "")]
     ELSE [s |-> IF r.s.ok THEN Raise(r.s, Call("list_all", "", r.id, 0)) ELSE r.s,
           root_folder_id |-> None, drive_files |-> {}] :
     r \in get_or_create_notes_folder(GDriveService(d, budget))}

\* the same for a handler that only pushes.  Results [s, id].
Root(d, budget) == get_or_create_notes_folder(GDriveService(d, budget))

NotConnected(op, user) ==
    /\ run = Idle
    /\ ~HasCredentials(user)
    /\ last' = Answer(op, user, 0, 0, "401", <<>>)
    /\ UNCHANGED <<notes, folders, drive, connected, run, mirror>>

\* the except branch of a handler: the answer is an error and the session's
\* changes are never committed
Abort(op, user, s) ==
    /\ drive' = s.d
    /\ run' = Idle
    /\ last' = Answer(op, user, 0, 0, "500", s.calls)
    /\ UNCHANGED <<notes, folders, connected, mirror>>

\* notes and folders stay within the model's bounds
InBounds(n, f) == DOMAIN n \subseteq 1..MaxNotes /\ DOMAIN f \subseteq 1..MaxFolders

\* a variant that does not count an entry whose processing raised
Bump_forgets_raised(c, how) ==
    CASE how = "imported" -> [c EXCEPT !.imported = @ + 1]
      [] how = "updated" -> [c EXCEPT !.updated = @ + 1]
      [] how = "pushed" -> [c EXCEPT !.pushed = @ + 1]
      [] how = "failed" -> [c EXCEPT !.failed = @ + 1]
      [] how = "raised" -> [c EXCEPT !.raised = @ + 1]
      [] OTHER -> [c EXCEPT !.skipped = @ + 1]

Bump(c, how) ==
    CASE how = "imported" -> [c EXCEPT !.imported = @ + 1]
      [] how = "updated" -> [c EXCEPT !.updated = @ + 1]
      [] how = "pushed" -> [c EXCEPT !.pushed = @ + 1]
      [] how = "failed" -> [c EXCEPT !.skipped = @ + 1, !.failed = @ + 1]
      [] how = "raised" -> [c EXCEPT !.skipped = @ + 1, !.raised = @ + 1]
      [] OTHER -> [c EXCEPT !.skipped = @ + 1]

\* ---- pull_from_drive (auto_pull is the same code) ----
pull_from_drive_begin(user) ==
    /\ run = Idle
    /\ HasCredentials(user)
    /\ \E budget \in 0..3 : \E r \in Scan(drive, budget) :
          IF r.s.ok
          THEN /\ run' = [pc |-> "pull", user |-> user, root |-> r.root_folder_id,
                          todo |-> {e \in r.drive_files : ~e.is_folder},
                          existing |-> existing_by_gdrive_id(notes, user),
                          n |-> notes, f |-> folders, count |-> Counters,
                          pulled_notes |-> {}, step |-> NoStep,
                          repeat |-> /\ last.op = "pull_from_drive"
                                     /\ last.status = "200"
                                     /\ last.user = user
                                     /\ last.count.failed = 0]
               /\ drive' = r.s.d
               /\ UNCHANGED <<notes, folders, connected, last, mirror>>
          ELSE /\ Abort("pull_from_drive", user, r.s)

pull_from_drive_item ==
    /\ run.pc = "pull"
    /\ \E item \in run.todo :
          IF ~Classify(item.name, item.mimeType).ok
          THEN /\ run' = [run EXCEPT !.todo = @ \ {item},
                                     !.count = Bump(@, "unsupported"),
                                     !.step = [id |-> item.id, how |-> "unsupported", calls |-> <<>>]]
               /\ UNCHANGED drive
          ELSE \E budget \in 0..1 :
               \E r \in PullItem(GDriveService(drive, budget), run.n, run.f,
                                 run.existing, item, run.user) :
                  /\ InBounds(r.n, r.f)
                  /\ run' = [run EXCEPT !.todo = @ \ {item}, !.n = r.n, !.f = r.f,
                                        !.count = Bump(@, r.how),
                                        !.pulled_notes =
                                            IF r.how \in {"imported", "updated"}
                                            THEN @ \cup {r.note} ELSE @,
                                        !.step = [id |-> item.id, how |-> r.how,
                                                  calls |-> r.s.calls]]
                  /\ drive' = r.s.d
    /\ UNCHANGED <<notes, folders, connected, last, mirror>>

pull_from_drive_end ==
    /\ run.pc = "pull"
    /\ run.todo = {}
    /\ notes' = Commit(run.n)
    /\ folders' = run.f
    /\ run' = Idle
    /\ last' = Answer("pull_from_drive", run.user, 0, 0, "200", <<>>)
                 @@ [count |-> run.count, repeat |-> run.repeat,
                     pulled_notes |-> run.pulled_notes]
    /\ mirror' \in save_notes_to_filesystem(mirror, Commit(run.n), run.f, run.pulled_notes)
    /\ UNCHANGED <<drive, connected>>

\* ---- sync_all ----
\* Note.query.filter_by(user_id=..., sync_status='local').all()
LocalNotes(n, user) == {i \in DOMAIN n : n[i].user_id = user /\ n[i].sync_status = "local"}

sync_all_begin(user) ==
    /\ run = Idle
    /\ HasCredentials(user)
    /\ \E budget \in 0..2 : \E r \in Root(drive, budget) :
          IF r.s.ok
          THEN /\ run' = [pc |-> "sync_all", user |-> user, root |-> r.id,
                          todo |-> LocalNotes(notes, user), n |-> notes, f |-> folders,
                          count |-> Counters, step |-> NoStep]
               /\ drive' = r.s.d
               /\ UNCHANGED <<notes, folders, connected, last, mirror>>
          ELSE Abort("sync_all", user, r.s)

\* the loop has no try of its own: a note whose push raises ends the handler
\* in its except branch, before the commit
sync_all_item ==
    /\ run.pc = "sync_all"
    /\ \E id \in run.todo : \E budget \in 0..NoFailure(run.f) :
       \E r \in PushNote(GDriveService(drive, budget), run.n, run.f, id, run.root, TRUE) :
          IF r.s.ok
          THEN /\ run' = [run EXCEPT !.todo = @ \ {id}, !.n = r.n, !.f = r.f,
                                     !.count = Bump(@, "pushed"),
                                     !.step = [id |-> id, how |-> "pushed", calls |-> r.s.calls]]
               /\ drive' = r.s.d
               /\ UNCHANGED <<notes, folders, connected, last, mirror>>
          ELSE Abort("sync_all", run.user, r.s)

sync_all_end ==
    /\ run.pc = "sync_all"
    /\ run.todo = {}
    /\ notes' = Commit(run.n)
    /\ folders' = run.f
    /\ run' = Idle
    /\ last' = Answer("sync_all", run.user, 0, 0, "200", <<>>) @@ [count |-> run.count]
    /\ UNCHANGED <<drive, connected, mirror>>

\* ---- sync_note ----
sync_note(user, note_id) ==
    /\ run = Idle
    /\ HasCredentials(user)
    /\ OwnNote(notes, user, note_id) # None
    /\ \E budget \in 0..NoFailure(folders) : \E root \in Root(drive, budget) :
       \E r \in PushNote(root.s, notes, folders, note_id, root.id, TRUE) :
          IF r.s.ok
          THEN /\ notes' = Commit(r.n)
               /\ folders' = r.f
               /\ drive' = r.s.d
               /\ last' = Answer("sync_note", user, note_id, 0, "200", r.s.calls)
               /\ UNCHANGED <<connected, run, mirror>>
          ELSE Abort("sync_note", user, r.s)

\* ---- full_sync: generate() ----
\* the entries the pull phase evaluates
Syncable(drive_files) ==
    {e \in drive_files : ~e.is_folder /\ Classify(e.name, e.mimeType).ok}

\* the positions of the calls of one kind in a list of calls
CallsOf(calls, op) == {i \in DOMAIN calls : calls[i].op = op}

\* (run.before keeps the Note rows and the remote files as they were when the
\* handler began, for the statements about what a full sync did to them.)
\* The progress stream.  An event is the dictionary generate() yields, of
\* which the model keeps the status and the percent; NoPercent stands for an
\* event without percent, the status "" for an event without status.
NoPercent == -1

Event(status, percent) == [status |-> status, percent |-> percent]

\* a faulty variant of Percent: the share of the items still to be processed
Percent_remaining(processed, total_files) == ((total_files - processed) * 100) \div total_files

\* int((processed / total_files) * 100); the float product and the integer
\* quotient agree for the totals of the model
Percent(processed, total_files) == (processed * 100) \div total_files

\* the events up to the end of the scan: 'starting' precedes the request for
\* the Notes folder, 'scanning' the listing
ScanEvents(s) ==
    IF s.ok \/ CallsOf(s.calls, "list_all") # {}
    THEN <<Event("starting", NoPercent), Event("scanning", NoPercent)>>
    ELSE <<Event("starting", NoPercent)>>

\* a variant whose generator goes on to its last yield after the error event
FullSyncError_goes_on(user, s, stream) ==
    /\ drive' = s.d
    /\ run' = Idle
    /\ last' = Answer("full_sync", user, 0, 0, "error", s.calls)
                 @@ [count |-> Counters,
                     stream |-> stream \o <<Event("error", NoPercent), Event("complete", 100)>>]
    /\ UNCHANGED <<notes, folders, connected, mirror>>

\* the except branch of generate(): the error event ends the stream, and the
\* session's changes are never committed
FullSyncError(user, s, stream) ==
    /\ drive' = s.d
    /\ run' = Idle
    /\ last' = Answer("full_sync", user, 0, 0, "error", s.calls)
                 @@ [count |-> Counters, stream |-> Append(stream, Event("error", NoPercent))]
    /\ UNCHANGED <<notes, folders, connected, mirror>>

full_sync_begin(user) ==
    /\ run = Idle
    /\ HasCredentials(user)
    /\ \E budget \in 0..3 : \E r \in Scan(drive, budget) :
          IF ~r.s.ok
          THEN /\ FullSyncError(user, r.s, ScanEvents(r.s))
          ELSE IF Syncable(r.drive_files) = {} /\ LocalNotes(notes, user) = {}
          THEN /\ drive' = r.s.d
               /\ last' = Answer("full_sync", user, 0, 0, "complete", r.s.calls)
                            @@ [count |-> Counters,
                                stream |-> Append(ScanEvents(r.s), Event("complete", 100))]
               /\ UNCHANGED <<notes, folders, connected, run, mirror>>
          ELSE /\ run' = [pc |-> "full_pull", user |-> user, root |-> r.root_folder_id,
                          todo |-> Syncable(r.drive_files),
                          existing |-> existing_by_gdrive_id(notes, user),
                          local_notes |-> LocalNotes(notes, user),
                          n |-> notes, f |-> folders, count |-> Counters,
                          pulled_notes |-> {}, step |-> NoStep,
                          total_files |-> Cardinality(Syncable(r.drive_files))
                                            + Cardinality(LocalNotes(notes, user)),
                          processed |-> 0,
                          stream |-> Append(ScanEvents(r.s), Event("syncing", 0)),
                          before |-> [notes |-> notes, files |-> drive.files]]
               /\ drive' = r.s.d
               /\ UNCHANGED <<notes, folders, connected, last, mirror>>

full_sync_pull_item ==
    /\ run.pc = "full_pull"
    /\ \E item \in run.todo : \E budget \in 0..1 :
       \E r \in PullItem(GDriveService(drive, budget), run.n, run.f,
                         run.existing, item, run.user) :
          /\ InBounds(r.n, r.f)
          /\ run' = [run EXCEPT !.todo = @ \ {item}, !.n = r.n, !.f = r.f,
                                !.count = Bump(@, r.how),
                                !.pulled_notes = IF r.how \in {"imported", "updated"}
                                                 THEN @ \cup {r.note} ELSE @,
                                !.step = [id |-> item.id, how |-> r.how, calls |-> r.s.calls],
                                !.processed = @ + 1,
                                !.stream = Append(@, Event("syncing",
                                               Percent(run.processed + 1, run.total_files)))]
          /\ drive' = r.s.d
    /\ UNCHANGED <<notes, folders, connected, last, mirror>>

\* a faulty variant of full_sync_commit: the push phase begins while entries
\* of the listing are still to be pulled
full_sync_commit_early ==
    /\ run.pc = "full_pull"
    /\ notes' = Commit(run.n)
    /\ folders' = run.f
    /\ run' = [run EXCEPT !.pc = "full_push", !.todo = run.local_notes,
                          !.n = Commit(run.n), !.step = NoStep]
    /\ mirror' \in save_notes_to_filesystem(mirror, Commit(run.n), run.f, run.pulled_notes)
    /\ UNCHANGED <<drive, connected, last>>

\* db.session.commit() between the phases and FileStorageService.sync_all_notes
\* of the pulled notes; the push loop then runs over the notes that were local
\* when the handler began
full_sync_commit ==
    /\ run.pc = "full_pull"
    /\ run.todo = {}
    /\ notes' = Commit(run.n)
    /\ folders' = run.f
    /\ run' = [run EXCEPT !.pc = "full_push", !.todo = run.local_notes,
                          !.n = Commit(run.n), !.step = NoStep]
    /\ mirror' \in save_notes_to_filesystem(mirror, Commit(run.n), run.f, run.pulled_notes)
    /\ UNCHANGED <<drive, connected, last>>

\* each note is pushed inside its own try
full_sync_push_item ==
    /\ run.pc = "full_push"
    /\ \E id \in run.todo : \E budget \in 0..NoFailure(run.f) :
       \E r \in PushNote(GDriveService(drive, budget), run.n, run.f, id, run.root, TRUE) :
          /\ run' = [run EXCEPT !.todo = @ \ {id}, !.n = r.n, !.f = r.f,
                                !.count = Bump(@, IF r.s.ok THEN "pushed" ELSE "push_failed"),
                                !.step = [id |-> id,
                                          how |-> IF r.s.ok THEN "pushed" ELSE "push_failed",
                                          calls |-> r.s.calls],
                                !.processed = @ + 1,
                                !.stream = Append(@, Event("syncing",
                                               Percent(run.processed + 1, run.total_files)))]
          /\ drive' = r.s.d
    /\ UNCHANGED <<notes, folders, connected, last, mirror>>

full_sync_end ==
    /\ run.pc = "full_push"
    /\ run.todo = {}
    /\ notes' = Commit(run.n)
    /\ folders' = run.f
    /\ run' = Idle
    /\ last' = Answer("full_sync", run.user, 0, 0, "complete", <<>>)
                 @@ [count |-> run.count, stream |-> Append(run.stream, Event("complete", 100)),
                     total_files |-> run.total_files, processed |-> run.processed]
    /\ UNCHANGED <<drive, connected, mirror>>

\* The client stops reading the stream.  The server closes the generator,
\* which is suspended at the yield of an event: GeneratorExit is no Exception,
\* no except branch takes it, and the statements after the yield never run.
\* The session's uncommitted changes go with the request context.  The yields
\* are those of the events: 'syncing' at 0 percent and the event of each
\* entry pulled or note pushed.
full_sync_close ==
    /\ \/ run.pc = "full_pull"
       \/ run.pc = "full_push" /\ run.step # NoStep
    /\ run' = Idle
    /\ last' = Answer("full_sync", run.user, 0, 0, "closed", <<>>)
                 @@ [count |-> run.count, stream |-> run.stream,
                     total_files |-> run.total_files, processed |-> run.processed,
                     todo |-> run.todo, n |-> run.n]
    /\ UNCHANGED <<notes, folders, drive, connected, mirror>>

\* a client that accepts text/event-stream and has no credentials is answered
\* a stream of one event, {'error': 'Not connected'}
full_sync_not_connected(user) ==
    /\ run = Idle
    /\ ~HasCredentials(user)
    /\ last' = Answer("full_sync", user, 0, 0, "200", <<>>)
                 @@ [count |-> Counters, stream |-> <<Event("", NoPercent)>>]
    /\ UNCHANGED <<notes, folders, drive, connected, run, mirror>>

\* ---- the session's credentials ----
oauth_callback ==
    /\ run = Idle
    /\ ~connected
    /\ connected' = TRUE
    /\ UNCHANGED <<notes, folders, drive, run, last, mirror>>

disconnect ==
    /\ run = Idle
    /\ connected
    /\ connected' = FALSE
    /\ UNCHANGED <<notes, folders, drive, run, last, mirror>>

(***************************************************************************)
(* Two sync invocations of one user at the same time (two requests served  *)
(* by two threads, each with its own GDriveService).  Of an invocation the *)
(* model keeps the folder resolution: get_or_create_notes_folder, then     *)
(* get_or_create_folder_path, one request to the remote store per step.    *)
(* run.inv[p] is [pc, path, parent]: the segments still to resolve and     *)
(* current_parent.                                                         *)
(***************************************************************************)
Invocations == {1, 2}

NoInvocation == [pc |-> "none", path |-> <<>>, parent |-> None]

Inv == IF run = Idle THEN [p \in Invocations |-> NoInvocation] ELSE run.inv

\* after a segment is resolved to folder id: the next segment, or the return
Resolved(inv, id) ==
    IF Tail(inv.path) = <<>> THEN NoInvocation
    ELSE [pc |-> "list", path |-> Tail(inv.path), parent |-> id]

Concurrent(inv) ==
    IF \A p \in Invocations : inv[p] = NoInvocation THEN Idle
    ELSE [pc |-> "concurrent", inv |-> inv]

\* a request that pushes a note of a folder with path folder_path begins
invoke(p, folder_path) ==
    /\ run = Idle \/ run.pc = "concurrent"
    /\ HasCredentials(SyncUser)
    /\ Inv[p] = NoInvocation
    /\ run' = Concurrent([Inv EXCEPT ![p] = [pc |-> "list", path |-> <<"Notes">> \o folder_path,
                                              parent |-> None]])
    /\ UNCHANGED <<notes, folders, drive, connected, last, mirror>>

\* get_or_create_folder: files().list, and the return of files[0] if any
folder_list(p) ==
    /\ run # Idle /\ run.pc = "concurrent"
    /\ run.inv[p].pc = "list"
    /\ LET files == FolderMatches(drive, Head(run.inv[p].path), run.inv[p].parent)
       IN  IF files # {}
           THEN \E id \in files : run' = Concurrent([run.inv EXCEPT ![p] = Resolved(@, id)])
           ELSE run' = Concurrent([run.inv EXCEPT ![p].pc = "create"])
    /\ UNCHANGED <<notes, folders, drive, connected, last, mirror>>

\* get_or_create_folder: files().create, after a list that found nothing
folder_create(p) ==
    /\ run # Idle /\ run.pc = "concurrent"
    /\ run.inv[p].pc = "create"
    /\ drive.nextFolder <= MaxRemoteFolders
    /\ drive' = FolderCreated(drive, Head(run.inv[p].path), run.inv[p].parent)
    /\ run' = Concurrent([run.inv EXCEPT ![p] = Resolved(@, drive.nextFolder)])
    /\ UNCHANGED <<notes, folders, connected, last, mirror>>

(***************************************************************************)
(* Changes made to the remote store outside the tool.                      *)
(***************************************************************************)
\* a file appears in a folder of the Notes tree
remote_create(name, mime_type, parent, content, time_ok) ==
    /\ run = Idle
    /\ parent \in DOMAIN drive.folders
    /\ drive.nextFile <= MaxRemoteFiles
    /\ drive' = [drive EXCEPT !.files = @ @@ (NewFileId(drive) :>
                                 [name |-> name, parents |-> {parent}, content |-> content,
                                  modifiedTime |-> IF time_ok THEN drive.clock ELSE 0,
                                  mimeType |-> mime_type]),
                              !.nextFile = @ + 1]
    /\ last' = Answer("remote_create", 0, NewFileId(drive), 0, "", <<>>)
    /\ UNCHANGED <<notes, folders, connected, run, mirror>>

\* a folder created on the remote side, below Notes
remote_create_folder(name, parent) ==
    /\ run = Idle
    /\ parent \in DOMAIN drive.folders
    /\ drive.nextFolder <= MaxRemoteFolders
    /\ drive' = FolderCreated(drive, name, parent)
    /\ last' = Answer("remote_create_folder", 0, drive.nextFolder, 0, "", <<>>)
    /\ UNCHANGED <<notes, folders, connected, run, mirror>>

\* a file is put under a further folder on the remote side (addParents)
remote_add_parent(file_id, parent) ==
    /\ run = Idle
    /\ file_id \in DOMAIN drive.files
    /\ parent \in DOMAIN drive.folders
    /\ parent \notin drive.files[file_id].parents
    /\ drive' = [drive EXCEPT !.files[file_id].parents = @ \cup {parent}]
    /\ last' = Answer("remote_add_parent", 0, file_id, parent, "", <<>>)
    /\ UNCHANGED <<notes, folders, connected, run, mirror>>

\* a file's content is replaced, at a later time
remote_edit(file_id, content) ==
    /\ run = Idle
    /\ file_id \in DOMAIN drive.files
    /\ drive.clock < MaxTime
    /\ drive.files[file_id].content # content
    /\ drive' = [drive EXCEPT !.clock = @ + 1,
                              !.files[file_id].content = content,
                              !.files[file_id].modifiedTime = drive.clock + 1]
    /\ last' = Answer("remote_edit", 0, file_id, 0, "", <<>>)
    /\ UNCHANGED <<notes, folders, connected, run, mirror>>

(***************************************************************************)
(* The directories of the mirror.                                          *)
(***************************************************************************)
\* `while current: path.insert(0, current.name); current = current.parent`,
\* begun with a path and a folder (a walk of a cyclic chain never ends; the
\* operator is applied to acyclic tables only)
RECURSIVE InsertParents(_, _, _)
InsertParents(f, current, path) ==
    IF current = None THEN path
    ELSE InsertParents(f, Related(f, f[current].parent_id), <<f[current].name>> \o path)

\* a variant of the loop that appends: the names from the folder up to the root
RECURSIVE AppendParents(_, _, _)
AppendParents(f, current, path) ==
    IF current = None THEN path
    ELSE AppendParents(f, Related(f, f[current].parent_id), path \o <<f[current].name>>)

\* a variant of Folder.get_path: path.append(parent.name)
get_path_upward(f, id) == AppendParents(f, Related(f, f[id].parent_id), <<f[id].name>>)

\* models/folder.py Folder.get_path: path = [self.name]; parent = self.parent
get_path(f, id) == InsertParents(f, Related(f, f[id].parent_id), <<f[id].name>>)

\* os.makedirs(path, exist_ok=True): the directory and its missing ancestors.
\* A directory is the list of names below base_path.
makedirs(dirs, parts) == dirs \cup {SubSeq(parts, 1, k) : k \in 0..Len(parts)}

\* FileStorageService._get_folder_path: [path_parts, dirs]; base_path itself
\* for no folder, else the joined path, which _ensure_dir creates
FileStorage_get_folder_path(m, f, folder) ==
    IF folder = None THEN [path_parts |-> <<>>, dirs |-> m.dirs]
    ELSE LET path_parts == InsertParents(f, folder, <<>>)
         IN  [path_parts |-> path_parts, dirs |-> makedirs(m.dirs, path_parts)]

\* os.listdir: the subdirectories and the files of a directory
listdir(m, parts) ==
    {d \in m.dirs : Len(d) = Len(parts) + 1 /\ SubSeq(d, 1, Len(parts)) = parts}
        \cup {<<p>> : p \in {q \in DOMAIN m.files : PathParts(q) = parts}}

\* FileStorageService.create_folder
FileStorage_create_folder(m, f, folder) ==
    [m EXCEPT !.dirs = FileStorage_get_folder_path(m, f, folder).dirs]

\* FileStorageService.save_note with its directory: _get_folder_path, then
\* the file is written
FileStorage_save_note(m, f, note) ==
    [m EXCEPT !.dirs = FileStorage_get_folder_path(m, f, Related(f, note.folder_id)).dirs,
              !.files = save_note(m.files, f, note)]

\* FileStorageService.delete_note: [m, result]
FileStorage_delete_note(m, f, note) ==
    LET made == [m EXCEPT !.dirs =
                    FileStorage_get_folder_path(m, f, Related(f, note.folder_id)).dirs]
    IN  IF FilePath(f, note) \in DOMAIN m.files
        THEN [m |-> [made EXCEPT !.files =
                        [p \in DOMAIN m.files \ {FilePath(f, note)} |-> m.files[p]]],
              result |-> TRUE]
        ELSE [m |-> made, result |-> FALSE]

\* FileStorageService.delete_folder: [m, result].  os.path.exists and
\* os.path.isdir are asked after _get_folder_path has made the directory.
FileStorage_delete_folder(m, f, folder) ==
    LET r == FileStorage_get_folder_path(m, f, folder)
        made == [m EXCEPT !.dirs = r.dirs]
    IN  IF r.path_parts \in made.dirs /\ listdir(made, r.path_parts) = {}
        THEN [m |-> [made EXCEPT !.dirs = @ \ {r.path_parts}], result |-> TRUE]
        ELSE [m |-> made, result |-> FALSE]

\* the three functions that resolve a folder's path, applied to one folder
\* (Folder.get_path is a method: there is none for no folder)
resolve_path(id) ==
    /\ run = Idle
    /\ id \in {None} \cup DOMAIN folders
    /\ LET r == FileStorage_get_folder_path(mirror, folders, id)
       IN  /\ last' = Answer("get_folder_path", SyncUser, id, 0, "", <<>>)
                        @@ [route |-> get_folder_path(folders, id),
                            storage |-> r.path_parts,
                            model |-> IF id = None THEN <<>> ELSE get_path(folders, id)]
           /\ mirror' = [mirror EXCEPT !.dirs = r.dirs]
    /\ UNCHANGED <<notes, folders, drive, connected, run>>

storage_create_folder(id) ==
    /\ run = Idle
    /\ id \in DOMAIN folders
    /\ mirror' = FileStorage_create_folder(mirror, folders, id)
    /\ last' = Answer("storage.create_folder", SyncUser, id, 0, "", <<>>)
    /\ UNCHANGED <<notes, folders, drive, connected, run>>

storage_save_note(id) ==
    /\ run = Idle
    /\ id \in DOMAIN notes
    /\ mirror' = FileStorage_save_note(mirror, folders, notes[id])
    /\ last' = Answer("storage.save_note", SyncUser, id, 0, "", <<>>)
    /\ UNCHANGED <<notes, folders, drive, connected, run>>

storage_delete_note(id) ==
    /\ run = Idle
    /\ id \in DOMAIN notes
    /\ LET r == FileStorage_delete_note(mirror, folders, notes[id])
       IN  /\ mirror' = r.m
           /\ last' = Answer("storage.delete_note", SyncUser, id, 0, "", <<>>)
                        @@ [result |-> r.result]
    /\ UNCHANGED <<notes, folders, drive, connected, run>>

storage_delete_folder(id) ==
    /\ run = Idle
    /\ id \in DOMAIN folders
    /\ LET r == FileStorage_delete_folder(mirror, folders, id)
       IN  /\ mirror' = r.m
           /\ last' = Answer("storage.delete_folder", SyncUser, id, 0, "", <<>>)
                        @@ [result |-> r.result]
    /\ UNCHANGED <<notes, folders, drive, connected, run>>

(***************************************************************************)
(* Specifications.                                                         *)
(***************************************************************************)
\* an empty catalog and an empty Drive; the login stored credentials or not
StartWith(credentials, location) ==
    /\ notes = <<>>
    /\ folders = <<>>
    /\ drive = [folders |-> <<>>, files |-> <<>>, nextFolder |-> 1, nextFile |-> 1, clock |-> 1]
    /\ connected = credentials
    /\ run = Idle
    /\ last = Answer("", 0, 0, 0, "", <<>>)
    /\ mirror = [location |-> location, files |-> <<>>]

\* a user who has set no notes_location
Start(credentials) == StartWith(credentials, FALSE)

Init == Start(TRUE)

\* The catalog: the folder and note requests of two users, neither of them
\* connected to a remote store.
InitCatalog == Start(FALSE)

NextCatalog ==
    \/ \E user \in Users, name \in {"A"}, parent_id \in 0..MaxFolders :
          create_folder(user, name, parent_id)
    \/ \E user \in Users, id \in DOMAIN folders, parent_id \in 0..MaxFolders :
          move_folder(user, id, parent_id)
    \/ \E user \in Users, id \in DOMAIN folders : delete_folder(user, id)
    \/ \E user \in Users : new_note(user, "a", "x", "md", 1)

SpecCatalog == InitCatalog /\ [][NextCatalog]_vars

\* The synchronisation of one user's notes with the remote store: every note
\* and sync request of the user SyncUser, all notes at the root, and files
\* that appear on the remote side.
Next ==
    \/ new_note(SyncUser, "a", "x", "md", None)
    \/ \E id \in DOMAIN notes :
          edit_note(SyncUser, id, notes[id].title, "y", notes[id].file_type, None)
    \/ \E id \in DOMAIN notes : delete_note(SyncUser, id)
    \/ pull_from_drive_begin(SyncUser)
    \/ pull_from_drive_item
    \/ pull_from_drive_end
    \/ sync_all_begin(SyncUser)
    \/ sync_all_item
    \/ sync_all_end
    \/ \E id \in DOMAIN notes : sync_note(SyncUser, id)
    \/ full_sync_begin(SyncUser)
    \/ full_sync_pull_item
    \/ full_sync_commit
    \/ full_sync_push_item
    \/ full_sync_end
    \/ \E op \in {"pull_from_drive", "sync_all", "full_sync"} : NotConnected(op, SyncUser)
    \/ oauth_callback
    \/ disconnect
    \/ \E parent \in DOMAIN drive.folders :
          remote_create("a.md", "text/markdown", parent, "x", TRUE)

Spec == Init /\ [][Next]_vars

\* The pull: files appear and change on the remote side, and the user pulls.
NextPull ==
    \/ pull_from_drive_begin(SyncUser)
    \/ pull_from_drive_item
    \/ pull_from_drive_end
    \/ \E parent \in DOMAIN drive.folders, time_ok \in BOOLEAN :
          remote_create("a.md", "text/markdown", parent, "x", time_ok)
    \/ \E parent \in DOMAIN drive.folders :
          remote_create("a.pdf", "application/pdf", parent, "x", TRUE)
    \/ \E file_id \in DOMAIN drive.files, content \in Contents : remote_edit(file_id, content)

SpecPull == Init /\ [][NextPull]_vars

\* The import: folders and files appear on the remote side, in Notes and
\* below it, by file name suffix or as a Google Doc; the user, who may have a
\* folder A already, pulls them.
NextImport ==
    \/ folders = <<>> /\ create_folder(SyncUser, "A", None)
    \/ \E parent \in DOMAIN drive.folders : remote_create_folder("A", parent)
    \/ \E parent \in DOMAIN drive.folders, name \in {"a.md", "b.txt"} :
          remote_create(name, MimeOf(name), parent, "x", TRUE)
    \/ \E parent \in DOMAIN drive.folders : remote_create("c", GDOC, parent, "x", TRUE)
    \/ pull_from_drive_begin(SyncUser)
    \/ pull_from_drive_item
    \/ pull_from_drive_end

SpecImport == Init /\ [][NextImport]_vars

\* The pushes of one connected user, one after another: the notes are created
\* at the root or in the folder A and are neither renamed nor moved, and any
\* remote call may fail.
NextSerial ==
    \/ folders = <<>> /\ create_folder(SyncUser, "A", None)
    \/ \E folder_id \in {None} \cup DOMAIN folders :
          new_note(SyncUser, "a", "x", "md", folder_id)
    \/ sync_all_begin(SyncUser)
    \/ sync_all_item
    \/ sync_all_end
    \/ \E id \in DOMAIN notes : sync_note(SyncUser, id)
    \/ full_sync_begin(SyncUser)
    \/ full_sync_pull_item
    \/ full_sync_commit
    \/ full_sync_push_item
    \/ full_sync_end

SpecSerial == Init /\ [][NextSerial]_vars

\* The listing: a remote file may be under several remote folders, and the
\* recursive listing then returns it once under each; the user pulls.
NextListing ==
    \/ DOMAIN drive.folders = {1} /\ remote_create_folder("A", 1)
    \/ \E parent \in DOMAIN drive.folders :
          remote_create("a.md", "text/markdown", parent, "x", TRUE)
    \/ \E file_id \in DOMAIN drive.files, parent \in DOMAIN drive.folders :
          remote_add_parent(file_id, parent)
    \/ pull_from_drive_begin(SyncUser)
    \/ pull_from_drive_item
    \/ pull_from_drive_end

SpecListing == Init /\ [][NextListing]_vars

\* The mirror: the paths of the folders of a catalog and the directories and
\* files below notes_location.  The catalog is any acyclic table of at most
\* MaxFolders folders of one user, with one note in any of them or at the root.
FolderTables ==
    UNION {{f \in [1..k -> [name : FolderNames, parent_id : 0..k, gdrive_id : {None},
                            user_id : {SyncUser}]] :
               \A id \in 1..k : WalkEnds(f, id)} : k \in 0..MaxFolders}

InitStorage ==
    /\ folders \in FolderTables
    /\ \E folder_id \in {None} \cup DOMAIN folders :
          notes = <<NewNoteRow("a", "x", "md", folder_id, SyncUser)>>
    /\ drive = [folders |-> <<>>, files |-> <<>>, nextFolder |-> 1, nextFile |-> 1, clock |-> 1]
    /\ connected = FALSE
    /\ run = Idle
    /\ last = Answer("", 0, 0, 0, "", <<>>)
    /\ mirror = [location |-> TRUE, files |-> <<>>, dirs |-> {<<>>}]

NextStorage ==
    \/ \E id \in {None} \cup DOMAIN folders : resolve_path(id)
    \/ \E id \in DOMAIN folders : storage_create_folder(id)
    \/ \E id \in DOMAIN notes : storage_save_note(id)
    \/ \E id \in DOMAIN notes : storage_delete_note(id)
    \/ \E id \in DOMAIN folders : storage_delete_folder(id)

SpecStorage == InitStorage /\ [][NextStorage]_vars

\* The push: the user creates a folder and notes, at the root or in the
\* folder, and pushes, with and without a connection to the remote store.
NextPush ==
    \/ folders = <<>> /\ create_folder(SyncUser, "A", None)
    \/ \E folder_id \in 0..1 : new_note(SyncUser, "a", "x", "md", folder_id)
    \/ sync_all_begin(SyncUser)
    \/ sync_all_item
    \/ sync_all_end
    \/ \E id \in DOMAIN notes : sync_note(SyncUser, id)
    \/ full_sync_begin(SyncUser)
    \/ full_sync_pull_item
    \/ full_sync_commit
    \/ full_sync_push_item
    \/ full_sync_end
    \/ oauth_callback
    \/ disconnect

SpecPush == Init /\ [][NextPush]_vars

\* The move: the user keeps one note, moves it between the root and two
\* folders, edits it and pushes.
NextMove ==
    \/ folders = <<>> /\ create_folder(SyncUser, "A", None)
    \/ DOMAIN folders = {1} /\ create_folder(SyncUser, "B", None)
    \/ \E folder_id \in 0..2 : notes = <<>> /\ new_note(SyncUser, "a", "x", "md", folder_id)
    \/ \E id \in DOMAIN notes, folder_id \in 0..2 :
          edit_note(SyncUser, id, notes[id].title, "y", notes[id].file_type, folder_id)
    \/ sync_all_begin(SyncUser)
    \/ sync_all_item
    \/ sync_all_end
    \/ \E id \in DOMAIN notes : sync_note(SyncUser, id)
    \/ oauth_callback
    \/ disconnect

SpecMove == Init /\ [][NextMove]_vars

\* The folder tree changes between full syncs: a connected user keeps one
\* note and creates, renames, moves and deletes folders.
NextStructure ==
    \/ folders = <<>> /\ drive.folders = <<>> /\ create_folder(SyncUser, "A", None)
    \/ DOMAIN folders = {1} /\ notes = <<>> /\ create_folder(SyncUser, "B", 1)
    \/ \E folder_id \in {None} \cup DOMAIN folders :
          notes = <<>> /\ new_note(SyncUser, "a", "x", "md", folder_id)
    \/ \E folder_id \in DOMAIN folders, name \in FolderNames :
          rename_folder(SyncUser, folder_id, name)
    \/ \E folder_id \in DOMAIN folders, new_parent_id \in 0..2 :
          move_folder(SyncUser, folder_id, new_parent_id)
    \/ \E folder_id \in DOMAIN folders : delete_folder(SyncUser, folder_id)
    \/ full_sync_begin(SyncUser)
    \/ full_sync_pull_item
    \/ full_sync_commit
    \/ full_sync_push_item
    \/ full_sync_end

SpecStructure == Init /\ [][NextStructure]_vars

\* The full sync of a user with a notes_location, connected or not: notes
\* are written and deleted, a file appears on the remote side, and the client
\* reads the progress stream to its end or stops reading.
InitFull == \E credentials \in BOOLEAN : StartWith(credentials, TRUE)

NextFull ==
    \/ new_note(SyncUser, "a", "x", "md", None)
    \/ \E id \in DOMAIN notes : delete_note(SyncUser, id)
    \/ full_sync_begin(SyncUser)
    \/ full_sync_pull_item
    \/ full_sync_commit
    \/ full_sync_push_item
    \/ full_sync_end
    \/ full_sync_close
    \/ full_sync_not_connected(SyncUser)
    \/ \E parent \in DOMAIN drive.folders :
          /\ \A i \in DOMAIN drive.files : drive.files[i].name # "b.md"
          /\ remote_create("b.md", "text/markdown", parent, "x", TRUE)

SpecFull == InitFull /\ [][NextFull]_vars

\* The conflict: one note is written and edited while its remote file
\* changes, and the user runs full syncs.
NextConflict ==
    \/ notes = <<>> /\ new_note(SyncUser, "a", "x", "md", None)
    \/ \E id \in DOMAIN notes :
          edit_note(SyncUser, id, notes[id].title, "y", notes[id].file_type, None)
    \/ full_sync_begin(SyncUser)
    \/ full_sync_pull_item
    \/ full_sync_commit
    \/ full_sync_push_item
    \/ full_sync_end
    \/ \E file_id \in DOMAIN drive.files : remote_edit(file_id, "z")

SpecConflict == Init /\ [][NextConflict]_vars

\* Two invocations at a time, each resolving the path of a note's folder.
NextConcurrent ==
    \/ \E p \in Invocations, folder_path \in {<<>>, <<"A">>, <<"A", "B">>} : invoke(p, folder_path)
    \/ \E p \in Invocations : folder_list(p)
    \/ \E p \in Invocations : folder_create(p)

SpecConcurrent == Init /\ [][NextConcurrent]_vars

(***************************************************************************)
(* Claims about the catalog.                                               *)
(***************************************************************************)
\* the parent chain of folder id ends at the root through folders that exist
WellRooted(f, id) ==
    /\ WalkEnds(f, id)
    /\ \A i \in DOMAIN ParentWalk(f, id, {}) :
          LET p == f[ParentWalk(f, id, {})[i]].parent_id IN p = None \/ p \in DOMAIN f

\* y is x or a folder below x
InSubtree(f, x, y) ==
    /\ y \in DOMAIN f
    /\ \E i \in DOMAIN ParentWalk(f, y, {}) : ParentWalk(f, y, {})[i] = x

\* C6: deleting folder F (here: a folder whose parent chain is well rooted)
\* sets folderId = null on every note that was in F, parentId = F.parentId on
\* every direct subfolder of F, removes F and changes nothing else.
C6_DeleteCascade ==
    [][(last'.op = "delete_folder" /\ WellRooted(folders, last'.id)) =>
          LET F == last'.id
          IN  /\ DOMAIN notes' = DOMAIN notes
              /\ DOMAIN folders' = DOMAIN folders \ {F}
              /\ \A i \in DOMAIN notes :
                    notes'[i] = IF notes[i].folder_id = F
                                THEN [notes[i] EXCEPT !.folder_id = None]
                                ELSE notes[i]
              /\ \A i \in DOMAIN folders \ {F} :
                    folders'[i] = IF folders[i].parent_id = F
                                  THEN [folders[i] EXCEPT !.parent_id = folders[F].parent_id]
                                  ELSE folders[i]]_vars

\* C7: a move_folder request that sets folder X's parent to X itself or to a
\* descendant of X is rejected with an error and leaves the catalog unchanged.
C7_MoveIntoSubtreeRejected ==
    [][(last'.op = "move_folder" /\ InSubtree(folders, last'.id, last'.arg)) =>
          (last'.status = "400" /\ folders' = folders /\ notes' = notes)]_vars

(***************************************************************************)
(* Claims about the pull.                                                  *)
(***************************************************************************)
\* this step is one iteration of a pull loop
PullStep == run.pc \in {"pull", "full_pull"} /\ run'.pc = run.pc /\ run'.todo # run.todo

\* the listing entry the iteration took
PulledItem == CHOOSE e \in run.todo : e \notin run'.todo

\* C1: when pull_from_drive runs twice in succession, with no remote change
\* and no user request in between (and the first run completed without a
\* failed download), the second run reports imported = 0 and updated = 0.
C1_SecondPullPullsNothing ==
    (last.op = "pull_from_drive" /\ last.status = "200" /\ last.repeat) =>
        (last.count.imported = 0 /\ last.count.updated = 0 /\ last.pulled_notes = {})

\* C2: for a listing entry that matches an existing note with a stored
\* gdrive_modified = T, an incoming modifiedTime <= T is skipped (no download,
\* note unchanged, counted as skipped) and an incoming modifiedTime > T is
\* applied, unless its download fails: content downloaded, title, content and
\* file_type overwritten, sync_status = synced, gdrive_modified = incoming.
C2_PullSkipRule ==
    [][(/\ PullStep
        /\ PulledItem.id \in DOMAIN run.existing
        /\ PulledItem.modifiedTime # 0
        /\ run.n[run.existing[PulledItem.id]].gdrive_modified.t # 0) =>
          LET item == PulledItem
              id == run.existing[item.id]
              T == run.n[id].gdrive_modified.t
              c == Classify(item.name, item.mimeType)
          IN  IF item.modifiedTime <= T
              THEN /\ run'.step.calls = <<>>
                   /\ run'.n = run.n
                   /\ run'.count.skipped = run.count.skipped + 1
              ELSE run'.step.how # "failed" =>
                   /\ \E i \in DOMAIN run'.step.calls :
                         run'.step.calls[i].op = "download" /\ run'.step.calls[i].id = item.id
                   /\ run'.n[id].title = c.title
                   /\ run'.n[id].content = drive.files[item.id].content
                   /\ run'.n[id].file_type = c.file_type
                   /\ run'.n[id].sync_status = "synced"
                   /\ run'.n[id].gdrive_modified.t = item.modifiedTime
                   /\ run'.count.updated = run.count.updated + 1]_vars

(***************************************************************************)
(* Claims about the push.                                                  *)
(***************************************************************************)
\* the names of the remote folders from the Drive root down to folder id
RECURSIVE RemotePath(_, _)
RemotePath(d, id) ==
    IF id \notin DOMAIN d.folders THEN <<>>
    ELSE Append(RemotePath(d, d.folders[id].parent), d.folders[id].name)

\* the remote folders at the place of the note's folder path under Notes
ResolvedFolders(d, f, note) ==
    {j \in DOMAIN d.folders :
        RemotePath(d, j) = <<"Notes">> \o get_folder_path(f, Related(f, note.folder_id))}

\* this step is one iteration of a push loop
PushStep == run.pc \in {"sync_all", "full_push"} /\ run'.pc = run.pc /\ run'.todo # run.todo

\* this step is a request answered at once (no run begins or goes on)
Request(op) == run = Idle /\ run' = Idle /\ last'.op = op

\* the calls of a push and the note after it are those of an upload: f is
\* the folder table, d the remote store after the push
Uploaded(calls, before, after, f, d) ==
    /\ Cardinality(CallsOf(calls, "upload")) = 1
    /\ CallsOf(calls, "update") = {}
    /\ \A i \in CallsOf(calls, "upload") :
          /\ calls[i].name = before.title \o "." \o before.file_type
          /\ calls[i].parent \in ResolvedFolders(d, f, before)
          /\ before.folder_id = None => d.folders[calls[i].parent].parent = None
          /\ after.gdrive_id = calls[i].id
          /\ calls[i].id \in DOMAIN d.files
    /\ after.sync_status = "synced"

\* C3: a successful push of a note with sync_status = local and no gdrive_id
\* (by sync_all, the push phase of full_sync, sync_note, or the auto-sync of
\* new_note) issues exactly one upload call, named "{title}.{file_type}", into
\* the remote folder of the note's folder path (the Notes folder for a note
\* at the root) and no update call; afterwards the note's gdrive_id is the id
\* the upload returned and its sync_status is synced.
C3_PushSetsIdentity ==
    [][/\ (/\ PushStep
           /\ run'.step.how = "pushed"
           /\ run.n[run'.step.id].gdrive_id = None
           /\ run.n[run'.step.id].sync_status = "local") =>
              Uploaded(run'.step.calls, run.n[run'.step.id], run'.n[run'.step.id],
                       run.f, drive')
       /\ (/\ Request("sync_note")
           /\ last'.status = "200"
           /\ notes' # notes
           /\ notes[last'.id].gdrive_id = None
           /\ notes[last'.id].sync_status = "local") =>
              Uploaded(last'.calls, notes[last'.id], notes'[last'.id], folders, drive')
       /\ (/\ Request("new_note")
           /\ last'.status = "synced"
           /\ DOMAIN notes' # DOMAIN notes) =>
              Uploaded(last'.calls, notes'[last'.id], notes'[last'.id], folders, drive')]_vars

\* C3 happens: sync_all or full_sync has just pushed, into a folder below
\* Notes, a note that was local and had no gdrive_id
C3_Witness ==
    /\ run.pc \in {"sync_all", "full_push"}
    /\ run.step.how = "pushed"
    /\ notes[run.step.id].gdrive_id = None
    /\ notes[run.step.id].sync_status = "local"
    /\ \E i \in CallsOf(run.step.calls, "upload") :
          /\ run.step.calls[i].parent # run.root
          /\ run.n[run.step.id].gdrive_id = run.step.calls[i].id

\* the calls of a push and its effects are those of a move of the remote file
\* g: before and after are the remote store before and after the push
Moved(calls, g, note, f, before, after) ==
    /\ Cardinality(CallsOf(calls, "update")) = 1
    /\ CallsOf(calls, "upload") = {}
    /\ \A i \in CallsOf(calls, "update") :
          /\ calls[i].id = g
          /\ calls[i].parent \in ResolvedFolders(after, f, note)
          /\ after.files[g].parents = {calls[i].parent}
    /\ note.gdrive_id = g
    /\ DOMAIN after.files = DOMAIN before.files

\* the note has a remote file, which is not in the folder of the note's path
Misplaced(note, f, before, after) ==
    /\ note.gdrive_id \in DOMAIN before.files
    /\ before.files[note.gdrive_id].parents \cap ResolvedFolders(after, f, note) = {}

\* C4: a successful push (by sync_all, sync_note, or the auto-sync of
\* edit_note) of a note that has a gdrive_id and whose remote file is not in
\* the folder the note is now in issues exactly one update call, which carries
\* the remote id of the note's folder as the new parent, and no upload call;
\* the note's gdrive_id is unchanged, no remote file is created and the file
\* is afterwards in that folder only.
C4_MoveWithoutDuplication ==
    [][/\ (/\ PushStep
           /\ run'.step.how = "pushed"
           /\ Misplaced(run.n[run'.step.id], run.f, drive, drive')) =>
              Moved(run'.step.calls, run.n[run'.step.id].gdrive_id, run'.n[run'.step.id],
                    run.f, drive, drive')
       /\ (/\ Request("sync_note")
           /\ last'.status = "200"
           /\ drive' # drive
           /\ Misplaced(notes[last'.id], folders, drive, drive')) =>
              Moved(last'.calls, notes[last'.id].gdrive_id, notes'[last'.id],
                    folders, drive, drive')
       /\ (/\ Request("edit_note")
           /\ last'.status = "synced"
           /\ drive' # drive
           /\ Misplaced(notes'[last'.id], folders, drive, drive')) =>
              Moved(last'.calls, notes[last'.id].gdrive_id, notes'[last'.id],
                    folders, drive, drive')]_vars

\* C4 happens: sync_all has just pushed a local note that had a gdrive_id,
\* and the update took the file out of one folder and put it into another
C4_Witness ==
    /\ run.pc = "sync_all"
    /\ run.step.how = "pushed"
    /\ notes[run.step.id].gdrive_id # None
    /\ notes[run.step.id].sync_status = "local"
    /\ \E i \in CallsOf(run.step.calls, "update") :
          /\ run.step.calls[i].remove # {}
          /\ run.step.calls[i].parent \notin run.step.calls[i].remove
          /\ drive.files[notes[run.step.id].gdrive_id].parents = {run.step.calls[i].parent}

\* the segment lists of the model: up to two folder names
SegmentLists ==
    {<<>>} \cup {<<a>> : a \in FolderNames} \cup {<<a, b>> : a \in FolderNames, b \in FolderNames}

\* at most one remote folder per (name, parent)
UniqueFolders(d) ==
    \A i \in DOMAIN d.folders, j \in DOMAIN d.folders :
        (d.folders[i].name = d.folders[j].name /\ d.folders[i].parent = d.folders[j].parent)
            => i = j

\* C5: in every reachable state of the remote store, two calls in a row of
\* get_or_create_folder_path with the same segment list and root return the
\* same folder id and the second issues no create call; and the store holds
\* at most one folder per (name, parent), before and after the calls.
C5_FolderResolutionIdempotent ==
    /\ UniqueFolders(drive)
    /\ \A root \in DOMAIN drive.folders, path \in SegmentLists :
          \A r1 \in get_or_create_folder_path(GDriveService(drive, 2 * Len(path)), path, root) :
          \A r2 \in get_or_create_folder_path(GDriveService(r1.s.d, 2 * Len(path)), path, root) :
              /\ r1.s.ok /\ r2.s.ok
              /\ r2.id = r1.id
              /\ CallsOf(r2.s.calls, "create_folder") = {}
              /\ r2.s.d = r1.s.d
              /\ UniqueFolders(r2.s.d)

\* C5 happens: a request has resolved the path of a folder that an earlier
\* request created, by lookups alone
C5_Witness ==
    /\ last.op \in {"new_note", "edit_note", "sync_note"}
    /\ \E i \in CallsOf(last.calls, "list") :
          /\ last.calls[i].name \in FolderNames
          /\ FolderMatches(drive, last.calls[i].name, last.calls[i].parent) # {}
    /\ CallsOf(last.calls, "create_folder") = {}
    /\ CallsOf(last.calls, "upload") \cup CallsOf(last.calls, "update") # {}

\* C9: after edit_note changes a note's title, content or folder, the note's
\* sync_status is local unless the push made by that request succeeded.
C9_EditMarksLocal ==
    [][(/\ Request("edit_note")
        /\ last'.status # "synced"
        /\ last'.id \in DOMAIN notes
        /\ \/ notes'[last'.id].title # notes[last'.id].title
           \/ notes'[last'.id].content # notes[last'.id].content
           \/ notes'[last'.id].folder_id # notes[last'.id].folder_id) =>
          notes'[last'.id].sync_status = "local"]_vars

\* this step is a push iteration whose remote call failed: sync_all answers
\* the error, full_sync counts it
PushFailed ==
    \/ run.pc = "sync_all" /\ run' = Idle /\ last'.op = "sync_all" /\ last'.status = "500"
    \/ PushStep /\ run'.step.how = "push_failed"

\* the notes the run has pushed so far
PushedInRun == {i \in DOMAIN run.n : notes[i].sync_status = "local" /\ run.n[i].sync_status = "synced"}

\* C10: when the remote call for one note fails in a push phase (sync_all or
\* the push phase of full_sync), the notes already pushed in the run keep
\* their gdrive_id and synced status, the failed note stays local, and the
\* remaining local notes are still attempted: the run ends only when none is left.
C10_PushFailureIsolated ==
    [][PushFailed =>
          IF run' = Idle
          THEN /\ Cardinality(run.todo) = 1
               /\ \A i \in PushedInRun :
                     /\ notes'[i].sync_status = "synced"
                     /\ notes'[i].gdrive_id = run.n[i].gdrive_id
               /\ \A i \in run.todo : notes'[i].sync_status = "local"
          ELSE /\ Cardinality(run'.todo) = Cardinality(run.todo) - 1
               /\ \A i \in PushedInRun : run'.n[i] = run.n[i]
               /\ run'.n[run'.step.id].sync_status = "local"]_vars

(***************************************************************************)
(* Claims about every request.                                             *)
(***************************************************************************)
\* C8: in every reachable state every note with sync_status = synced has a
\* gdrive_id.
C8_SyncedHasRemoteId ==
    \A i \in DOMAIN notes : notes[i].sync_status = "synced" => notes[i].gdrive_id # None

\* C8 happens: a request has just failed at a remote call while the catalog
\* holds a synced note and a local one
C8_Witness ==
    /\ last.status = "500"
    /\ last.calls # <<>>
    /\ \E i \in DOMAIN notes : notes[i].sync_status = "synced" /\ notes[i].gdrive_id # None
    /\ \E i \in DOMAIN notes : notes[i].sync_status = "local"

(***************************************************************************)
(* Claims about failures and phases of a run.                              *)
(***************************************************************************)
\* this step ends a pull loop: by the commit of pull_from_drive and its
\* answer, or by the commit between the phases of full_sync
PullLoopEnds == run.pc \in {"pull", "full_pull"} /\ run'.pc # run.pc

PullCalls == {"download"}
PushCalls == {"list", "create_folder", "get", "upload", "update"}

CallKinds(calls) == {calls[i].op : i \in DOMAIN calls}

\* C12: within one full_sync, the pull phase (its downloads, its changes of
\* the session, their commit and the saving of the pulled notes below
\* notes_location) comes before the first call of the push phase: while
\* entries are pulled no push call is issued and the remote store is not
\* changed; the push phase begins only when no entry is left, with the commit
\* and the save; and once it has begun no entry is pulled, nothing is
\* downloaded and nothing more is saved below notes_location.
C12_PullBeforePush ==
    [][/\ run.pc = "full_pull" =>
              /\ run'.pc \in {"full_pull", "full_push", "idle"}
              /\ run'.pc = "full_pull" =>
                    /\ CallKinds(run'.step.calls) \subseteq PullCalls
                    /\ drive' = drive
                    /\ notes' = notes /\ mirror' = mirror
              /\ run'.pc = "full_push" =>
                    /\ run.todo = {}
                    /\ notes' = Commit(run.n)
                    /\ mirror' \in save_notes_to_filesystem(mirror, notes', folders',
                                                            run.pulled_notes)
                    /\ drive' = drive
       /\ run.pc = "full_push" =>
              /\ run'.pc \in {"full_push", "idle"}
              /\ run'.pc = "full_push" =>
                    /\ CallKinds(run'.step.calls) \subseteq PushCalls
                    /\ run'.pulled_notes = run.pulled_notes
                    /\ run'.count.imported = run.count.imported
                    /\ run'.count.updated = run.count.updated
                    /\ run'.existing = run.existing
              /\ mirror' = mirror]_vars

\* C12 happens: the push phase has just uploaded a note, after a pull phase
\* that imported a file and saved it below notes_location
C12_Witness ==
    /\ run.pc = "full_push"
    /\ run.step.how = "pushed"
    /\ "upload" \in CallKinds(run.step.calls)
    /\ run.count.imported >= 1
    /\ \E i \in run.pulled_notes : FilePath(folders, notes[i]) \in DOMAIN mirror.files

\* the note was local when the full sync began, and its remote file had been
\* modified after the gdrive_modified the note stored
InConflict(before, id) ==
    /\ before.notes[id].sync_status = "local"
    /\ before.notes[id].gdrive_id \in DOMAIN before.files
    /\ before.notes[id].gdrive_modified.t # 0
    /\ before.files[before.notes[id].gdrive_id].modifiedTime > before.notes[id].gdrive_modified.t

\* C13: when a full sync completes, every note that was local when it began,
\* whose remote file had a modifiedTime greater than the note's stored
\* gdrive_modified, and whose push succeeded, has in the catalog and in the
\* remote file the content the note had locally when the sync began.
C13_ConflictResolvesToPush ==
    [][(run.pc = "full_push" /\ run' = Idle /\ last'.status = "complete") =>
          \A id \in run.local_notes :
             (InConflict(run.before, id) /\ notes'[id].sync_status = "synced") =>
                /\ notes'[id].content = run.before.notes[id].content
                /\ notes'[id].gdrive_id = run.before.notes[id].gdrive_id
                /\ drive'.files[notes'[id].gdrive_id].content = run.before.notes[id].content]_vars

\* C13 happens: the push phase has just sent a note that was in conflict
\* when the sync began, and the remote file, which held another content,
\* now holds the note's
C13_Witness ==
    /\ run.pc = "full_push"
    /\ run.step.how = "pushed"
    /\ InConflict(run.before, run.step.id)
    /\ run.before.files[run.before.notes[run.step.id].gdrive_id].content
          # run.before.notes[run.step.id].content
    /\ drive.files[run.n[run.step.id].gdrive_id].content = run.before.notes[run.step.id].content
    /\ run.n[run.step.id].content = run.before.notes[run.step.id].content

(***************************************************************************)
(* Claims about the progress stream of full_sync.                          *)
(***************************************************************************)
\* C14: when the client stops reading the progress stream of a full sync,
\* the sync has nevertheless run to its end: no listing entry and no local
\* note is left unprocessed, and the changes of the session (the gdrive_id of
\* every note uploaded among them) are committed.
C14_CloseDoesNotInterrupt ==
    (last.op = "full_sync" /\ last.status = "closed") =>
        /\ last.todo = {}
        /\ last.processed = last.total_files
        /\ notes = Commit(last.n)

\* the percents of the events that carry one are within 0..100 and never
\* decrease along the stream
PercentsAscend(stream) ==
    LET withPercent == {i \in DOMAIN stream : stream[i].percent # NoPercent}
    IN  /\ \A i \in withPercent : stream[i].percent \in 0..100
        /\ \A i \in withPercent, j \in withPercent :
               i <= j => stream[i].percent <= stream[j].percent

\* this step processes one item of a full sync: a listing entry or a note
FullSyncItem == run.pc \in {"full_pull", "full_push"} /\ run'.pc = run.pc /\ run'.todo # run.todo

\* C15: in a full sync, total_files is set once, when the loops begin, to the
\* number of listing entries to evaluate plus the number of local notes; each
\* item processed adds one to processed and exactly one event to the stream,
\* at the time it is processed; the percents of the stream are within 0..100
\* and never decrease; and when the complete event is emitted processed
\* equals total_files.
C15_ProgressReporting ==
    [][/\ (run = Idle /\ run'.pc = "full_pull") =>
              /\ run'.total_files = Cardinality(run'.todo) + Cardinality(run'.local_notes)
              /\ run'.todo = Syncable(list_all_files_recursive(drive', run'.root, ""))
              /\ run'.local_notes = LocalNotes(notes, run'.user)
              /\ run'.processed = 0
              /\ PercentsAscend(run'.stream)
       /\ (run.pc \in {"full_pull", "full_push"} /\ run'.pc \in {"full_pull", "full_push"}) =>
              /\ run'.total_files = run.total_files
              /\ IF FullSyncItem
                 THEN /\ run'.processed = run.processed + 1
                      /\ Cardinality(run'.todo) = Cardinality(run.todo) - 1
                      /\ \E ev \in {Event("syncing", Percent(run'.processed, run.total_files))} :
                            run'.stream = Append(run.stream, ev)
                 ELSE /\ run'.processed = run.processed
                      /\ run'.stream = run.stream
              /\ PercentsAscend(run'.stream)
       /\ (last'.op = "full_sync" /\ last'.status = "complete" /\ last' # last) =>
              /\ PercentsAscend(last'.stream)
              /\ last'.stream[Len(last'.stream)] = Event("complete", 100)
              /\ run # Idle =>
                    /\ run.processed = run.total_files
                    /\ last'.stream = Append(run.stream, Event("complete", 100))
                    /\ Len(last'.stream) = run.total_files + 4]_vars

\* C15 happens: a full sync of three items, listing entries and local notes,
\* has completed, and its stream carries percents strictly between 0 and 100
C15_Witness ==
    /\ last.op = "full_sync"
    /\ last.status = "complete"
    /\ last.calls = <<>>
    /\ last.total_files = 3
    /\ last.processed = 3
    /\ \E i \in DOMAIN last.stream : last.stream[i].percent \in 1..99
    /\ last.count.pushed >= 1
    /\ last.count.imported + last.count.updated + last.count.skipped >= 1

\* the stream ends with an event whose status is complete or error, and no
\* earlier event has such a status
TerminatesOnce(stream) ==
    /\ stream # <<>>
    /\ stream[Len(stream)].status \in {"complete", "error"}
    /\ \A i \in 1..(Len(stream) - 1) : stream[i].status \notin {"complete", "error"}

\* C16: every progress stream of full_sync that the client reads to its end
\* ends with exactly one event whose status is complete or error, and holds no
\* event after it: for a user without credentials, for a sync with nothing to
\* do, for a failure of the requests that begin the sync, and for a sync that
\* ran through both phases.
C16_StreamTerminatesOnce ==
    (last.op = "full_sync" /\ last.status # "closed") => TerminatesOnce(last.stream)

(***************************************************************************)
(* Claims about the remote store.                                          *)
(***************************************************************************)
\* what the update_file calls among `calls` did to their files: ok tells
\* whether every call was answered (a call that raised is the last one)
UpdateOutcome(calls, ok, before, after) ==
    \A i \in CallsOf(calls, "get") \cup CallsOf(calls, "update") :
       LET g == calls[i].id
       IN  (g \in DOMAIN before.files /\ Cardinality(before.files[g].parents) = 1) =>
              IF ok
              THEN calls[i].op = "update" => after.files[g].parents = {calls[i].parent}
              ELSE after.files[g].parents = before.files[g].parents

\* C17: after update_file(file_id, content, filename, new_folder_id) the
\* file has exactly one parent, new_folder_id, whatever its parent was before
\* (new_folder_id included); and when one of the requests of update_file
\* raises, the file keeps the one parent it had.
C17_UpdateMovesAtomically ==
    [][/\ (Request("edit_note") /\ last' # last) =>
              UpdateOutcome(last'.calls, last'.status = "synced", drive, drive')
       /\ (Request("sync_note") /\ last' # last) =>
              UpdateOutcome(last'.calls, last'.status = "200", drive, drive')
       /\ PushStep =>
              UpdateOutcome(run'.step.calls, run'.step.how = "pushed", drive, drive')]_vars

\* C18: under two concurrent sync invocations of one user, in no
\* interleaving of their requests does the remote store come to hold two
\* folders with the same name and the same parent.
C18_NoDuplicateFolders ==
    \A i \in DOMAIN drive.folders, j \in DOMAIN drive.folders :
        (i # j /\ drive.folders[i].name = drive.folders[j].name)
            => drive.folders[i].parent # drive.folders[j].parent

(***************************************************************************)
(* Claims about the deletion of a note.                                    *)
(***************************************************************************)
\* C19: delete_note removes the note's row; the file the note has below
\* notes_location is no longer there afterwards; and for a note with a
\* gdrive_id (of a connected user) a delete request for that id is sent to
\* the remote store, whose failure leaves the row deleted all the same.
C19_DeleteNoteEverywhere ==
    [][(Request("delete_note") /\ last' # last /\ last'.id \in DOMAIN notes) =>
          LET note == notes[last'.id]
          IN  /\ last'.id \notin DOMAIN notes'
              /\ (mirror.location /\ FilePath(folders, note) \in DOMAIN mirror.files) =>
                    FilePath(folders, note) \notin DOMAIN mirror'.files
              /\ (note.gdrive_id # None /\ connected) =>
                    \E i \in CallsOf(last'.calls, "delete") : last'.calls[i].id = note.gdrive_id]_vars

(***************************************************************************)
(* Claims about malformed listing entries.                                 *)
(***************************************************************************)
\* C20: a listing entry whose modifiedTime is missing or does not parse is
\* skipped by the pull: it is counted as skipped (by pull_from_drive), no
\* download request is made for it, and no note or folder is created or
\* changed for it; the loop goes on with the other entries.
C20_MalformedTimeRejected ==
    [][(PullStep /\ PulledItem.modifiedTime = 0) =>
          /\ run'.step.calls = <<>>
          /\ run'.n = run.n
          /\ run'.f = run.f
          /\ run'.count.imported = run.count.imported
          /\ run'.count.updated = run.count.updated
          /\ run.pc = "pull" => run'.count.skipped = run.count.skipped + 1
          /\ run'.todo = run.todo \ {PulledItem}]_vars

(***************************************************************************)
(* Claims about what a push records.                                       *)
(***************************************************************************)
\* the note is synced and carries the time of the push
Stamped(note, now) ==
    /\ note.sync_status = "synced"
    /\ note.gdrive_modified.t # 0
    /\ note.gdrive_modified.t = now

\* C21: every successful push of a note (by the push phase of full_sync, by
\* sync_all, by sync_note, or by the auto-sync of new_note and edit_note)
\* leaves the note with sync_status = synced and with gdrive_modified set to
\* the time of the push.
C21_PushStampsTime ==
    [][/\ (PushStep /\ run'.step.how = "pushed") =>
              Stamped(run'.n[run'.step.id], drive.clock)
       /\ (Request("sync_note") /\ last' # last /\ last'.status = "200") =>
              Stamped(notes'[last'.id], drive.clock)
       /\ (Request("new_note") /\ last' # last /\ last'.status = "synced") =>
              Stamped(notes'[last'.id], drive.clock)
       /\ (Request("edit_note") /\ last' # last /\ last'.status = "synced") =>
              Stamped(notes'[last'.id], drive.clock)]_vars

\* C22: within one sync run (sync_all or the push phase of full_sync), the
\* folder path of a note is not looked up on the remote store again when an
\* earlier note of the run, in the same folder, has had it resolved: the push
\* of the later note issues no list request and no create_folder request.
C22_PathResolvedOncePerRun ==
    [][(/\ PushStep
        /\ run.n[run'.step.id].folder_id # None
        /\ \E j \in PushedInRun : run.n[j].folder_id = run.n[run'.step.id].folder_id) =>
          /\ CallsOf(run'.step.calls, "list") = {}
          /\ CallsOf(run'.step.calls, "create_folder") = {}]_vars

\* every note of the user that has a gdrive_id has its remote file in no other
\* remote folder than the one at the place of the note's folder path under
\* Notes (a file that update_file left without any parent is not counted)
Isomorphic(n, f, d) ==
    \A id \in DOMAIN n :
        (n[id].user_id = SyncUser /\ n[id].gdrive_id # None) =>
            /\ n[id].gdrive_id \in DOMAIN d.files
            /\ d.files[n[id].gdrive_id].parents \subseteq ResolvedFolders(d, f, n[id])

\* this step ends a full sync in which no entry was skipped and no push
\* failed (every remote call of the run was answered)
FullSyncCompletes ==
    /\ \/ run.pc = "full_push" /\ run' = Idle
       \/ Request("full_sync") /\ UNCHANGED <<notes, folders, connected>>
    /\ last'.status = "complete"
    /\ last'.count.skipped = 0

\* C23: at the end of a full sync in which no remote call failed, every note
\* that has a gdrive_id has its remote file in the remote folder whose path
\* below Notes is the path of the note's folder (Notes itself for a note at
\* the root), whatever note edits and folder renames, moves and deletions
\* came before.
C23_StructureIsomorphism ==
    [][FullSyncCompletes => Isomorphic(notes', folders', drive')]_vars

\* the title is the file name without its suffix .md or .txt, or the whole
\* name of a Google Doc
TitleOf(item, row) ==
    \/ item.name = row.title \o ".md" /\ row.file_type = "md"
    \/ item.name = row.title \o ".txt" /\ row.file_type = "txt"
    \/ /\ item.mimeType = GDOC
       /\ ~EndsWith(item.name, ".md") /\ ~EndsWith(item.name, ".txt")
       /\ row.title = item.name /\ row.file_type = "md"

\* two folder rows of one user with the same name under the same parent
Twins(a, b) == a.name = b.name /\ a.parent_id = b.parent_id /\ a.user_id = b.user_id

\* the pull of item made the session's tables n2, f2 out of n1, f1 by
\* importing one note
Imported(item, user, n1, f1, n2, f2) ==
    /\ Cardinality(DOMAIN n2 \ DOMAIN n1) = 1
    /\ \A i \in DOMAIN n1 : i \in DOMAIN n2 /\ n2[i] = n1[i]
    /\ \A i \in DOMAIN n2 \ DOMAIN n1 :
          /\ n2[i].sync_status = "synced"
          /\ n2[i].gdrive_id = item.id
          /\ n2[i].user_id = user
          /\ TitleOf(item, n2[i])
          /\ (n2[i].folder_id = None) = (PathParts(item.path) = <<>>)
          /\ n2[i].folder_id # None => n2[i].folder_id \in DOMAIN f2
          /\ get_folder_path(f2, Related(f2, n2[i].folder_id)) = PathParts(item.path)
    /\ \A j \in DOMAIN f1 : j \in DOMAIN f2 /\ f2[j] = f1[j]
    /\ \A j \in DOMAIN f2 \ DOMAIN f1 :
          /\ f2[j].user_id = user
          /\ \A k \in DOMAIN f2 \ {j} : ~Twins(f2[j], f2[k])

\* C24: the pull (pull_from_drive, the pull phase of full_sync) of a remote
\* entry whose id is the gdrive_id of no note of the user, once downloaded,
\* adds exactly one note: synced, with the entry's id as gdrive_id, the file
\* name without its suffix as title, and in the folder at the entry's path
\* without its last segment (no folder for an entry directly in Notes).  The
\* folders of that path are looked up by name, parent and user and only the
\* missing ones are created, so no folder gets a twin.
C24_PullImportsOnce ==
    [][(PullStep /\ run'.step.how = "imported") =>
          Imported(PulledItem, run.user, run.n, run.f, run'.n, run'.f)]_vars

\* C24 happens: a pull has imported two entries of one remote folder, the
\* second just now, into one catalog folder
C24_Witness ==
    /\ run.pc = "pull"
    /\ run.step.how = "imported"
    /\ Cardinality(DOMAIN run.n \ DOMAIN notes) = 2
    /\ \A i \in DOMAIN run.n : run.n[i].folder_id # None
    /\ \A i, j \in DOMAIN run.n : run.n[i].folder_id = run.n[j].folder_id
    /\ \E i \in DOMAIN run.n : run.n[i].gdrive_id = run.step.id

\* this step is a pull, a push of all notes or a full sync that ends in its
\* except branch before its loop begins: the Notes folder was not resolved
\* or the listing raised
AbortedAtStart ==
    /\ \/ Request("pull_from_drive") \/ Request("sync_all") \/ Request("full_sync")
    /\ last'.status \in {"500", "error"}
    /\ drive' # drive \/ last' # last

\* the events of an aborted stream: no entry was processed, and the error
\* event is the only error and the last event
OneError(stream) ==
    /\ stream # <<>>
    /\ stream[Len(stream)].status = "error"
    /\ \A i \in 1..(Len(stream) - 1) : stream[i].status \in {"starting", "scanning"}

\* C25: when pull_from_drive, sync_all or full_sync fails before its loop
\* (get_or_create_notes_folder or list_all_files_recursive raises), the
\* handler answers one error (status 500, or an error event that is the only
\* error and ends the stream), no entry is processed (every counter is 0, no
\* 'syncing' event), no upload, update, download or export request is issued,
\* no remote file changes, and the notes, the folders and the mirror are as
\* they were.
C25_AbortBeforeItems ==
    [][AbortedAtStart =>
          /\ notes' = notes /\ folders' = folders /\ mirror' = mirror
          /\ drive'.files = drive.files
          /\ \A op \in {"upload", "update", "download", "export"} :
                CallsOf(last'.calls, op) = {}
          /\ last'.op = "full_sync" =>
                /\ last'.status = "error"
                /\ last'.count = Counters
                /\ OneError(last'.stream)
          /\ last'.op # "full_sync" => last'.status = "500"]_vars

\* C25 happens: the user has a note, and a full sync has ended with an error
\* because the listing of the remote tree raised
C25_Witness ==
    /\ run = Idle
    /\ last.op = "full_sync"
    /\ last.status = "error"
    /\ CallsOf(last.calls, "list_all") # {}
    /\ notes # <<>>

\* C26: for every folder of an acyclic folder table, get_folder_path (the
\* routes), the path_parts of FileStorageService._get_folder_path and
\* Folder.get_path are the same list: the path of the folder's parent followed
\* by the folder's own name, the empty list for no folder; and resolving a
\* path changes no note and no folder.
C26_PathResolver ==
    [][(Request("get_folder_path") /\ last' # last) =>
          LET id == last'.id
              path == last'.route
          IN  /\ last'.storage = path
              /\ last'.model = path
              /\ id = None => path = <<>>
              /\ id # None =>
                    /\ path # <<>>
                    /\ path[Len(path)] = folders[id].name
                    /\ SubSeq(path, 1, Len(path) - 1)
                          = get_folder_path(folders, Related(folders, folders[id].parent_id))
              /\ notes' = notes /\ folders' = folders]_vars

\* C26 happens: the path of a folder that has a parent and a grandparent has
\* been resolved
C26_Witness ==
    /\ last.op = "get_folder_path"
    /\ Len(last.route) = 3
    /\ last.storage = last.route

\* the step is a call of FileStorageService.delete_folder for the directory at
\* path_parts
DeletesFolder == Request("storage.delete_folder") /\ (last' # last \/ mirror' # mirror)

\* C28: FileStorageService.delete_folder leaves a directory that has an entry
\* in place, with its entries; and it returns True exactly when the folder's
\* directory was there before the call and is gone after it.
C28_DeleteFolderOnlyIfEmpty ==
    [][DeletesFolder =>
          LET parts == get_folder_path(folders, last'.id)
          IN  /\ (parts \in mirror.dirs /\ listdir(mirror, parts) # {}) =>
                    /\ parts \in mirror'.dirs
                    /\ listdir(mirror', parts) = listdir(mirror, parts)
                    /\ mirror'.files = mirror.files
              /\ last'.result = (parts \in mirror.dirs /\ parts \notin mirror'.dirs)]_vars

\* what delete_folder does keep: a directory that has an entry stays, with
\* its entries
NonEmptyDirectoryStays ==
    [][DeletesFolder =>
          LET parts == get_folder_path(folders, last'.id)
          IN  (parts \in mirror.dirs /\ listdir(mirror, parts) # {}) =>
                 /\ parts \in mirror'.dirs
                 /\ listdir(mirror', parts) = listdir(mirror, parts)
                 /\ mirror'.files = mirror.files]_vars

\* this step is the commit that ends the pull phase of a full sync, with the
\* mirror write that follows it, for a user with a notes_location
MirrorStep ==
    /\ run.pc = "full_pull" /\ run.todo = {} /\ run' # run /\ run' # Idle
    /\ mirror.location
    /\ run.pulled_notes # {}

\* C27: the writing of the pulled notes to the mirror, after the commit of the
\* pull phase, decides nothing but the mirror: whichever of the writes fail,
\* the catalog is the committed session, the remote store is unchanged and the
\* run goes on to its push phase; any of the pulled notes may fail while the
\* others are written; and sync_all_notes returns the number of the notes it
\* wrote.
C27_MirrorFailuresNotFatal ==
    [][MirrorStep =>
          LET results == sync_all_notes(mirror.files, notes', folders', run.pulled_notes)
          IN  /\ notes' = Commit(run.n) /\ folders' = run.f /\ drive' = drive
              /\ run'.pc = "full_push" /\ run'.todo = run.local_notes
              /\ mirror'.files \in {r.files : r \in results}
              /\ \A S \in SUBSET run.pulled_notes : \E r \in results : r.saved = S
              /\ \A r \in results :
                    /\ r.synced = Cardinality(r.saved)
                    /\ \A i \in r.saved : FilePath(folders', notes'[i]) \in DOMAIN r.files
                    /\ \A p \in DOMAIN r.files :
                          \/ p \in DOMAIN mirror.files /\ r.files[p] = mirror.files[p]
                          \/ \E i \in r.saved : p = FilePath(folders', notes'[i])]_vars

\* C27 happens: the pull phase has committed two pulled notes, and the mirror
\* has the file of one of them and not that of the other
C27_Witness ==
    /\ run.pc = "full_push"
    /\ run.step = NoStep
    /\ \E i, j \in run.pulled_notes :
          /\ FilePath(folders, notes[i]) \in DOMAIN mirror.files
          /\ FilePath(folders, notes[j]) \notin DOMAIN mirror.files

\* C30: in every reachable state, whatever folder requests the users made and
\* with whatever parent_id, the walk along the parent links from any folder
\* ends.
C30_ParentChainAcyclic == \A id \in DOMAIN folders : WalkEnds(folders, id)

\* the remote files of one name in one remote folder, and the notes of that
\* file name whose folder path leads to that remote folder
FilesAt(d, parent, name) ==
    {i \in DOMAIN d.files : d.files[i].name = name /\ parent \in d.files[i].parents}

NotesAt(n, f, d, parent, name) ==
    {i \in DOMAIN n : Filename(n[i]) = name /\ parent \in ResolvedFolders(d, f, n[i])}

\* C29: when the pushes of one user run one after another and any remote call
\* may fail, no note is uploaded twice: a remote folder never holds more files
\* of one name than there are notes of that name in the folder of that path
\* (the notes are neither renamed nor moved, and every remote file is the
\* upload of a note).
C29_NoDuplicateRemoteFiles ==
    \A parent \in DOMAIN drive.folders :
        \A name \in {Filename(notes[i]) : i \in DOMAIN notes} :
            Cardinality(FilesAt(drive, parent, name))
                <= Cardinality(NotesAt(notes, folders, drive, parent, name))

\* C31: in every reachable state every parent_id of a folder and every
\* folder_id of a note that is not None names a folder that exists and
\* belongs to the same user.
C31_ReferentialIntegrity ==
    /\ \A id \in DOMAIN folders :
          folders[id].parent_id # None =>
             /\ folders[id].parent_id \in DOMAIN folders
             /\ folders[folders[id].parent_id].user_id = folders[id].user_id
    /\ \A id \in DOMAIN notes :
          notes[id].folder_id # None =>
             /\ notes[id].folder_id \in DOMAIN folders
             /\ folders[notes[id].folder_id].user_id = notes[id].user_id

\* C32: in every reachable state no two notes of one user have the same
\* gdrive_id (None apart); a pull creates at most one note for a remote file,
\* also when the listing returns the file more than once.
C32_UniqueRemoteIdentity ==
    \A i, j \in DOMAIN notes :
        (/\ i # j
         /\ notes[i].user_id = notes[j].user_id
         /\ notes[i].gdrive_id # None) => notes[i].gdrive_id # notes[j].gdrive_id

\* C33: in a full sync the push phase sends (uploads or updates) only notes
\* that are local when the push phase begins, and none that the pull phase
\* of the same run has overwritten.
C33_OnePhasePerNote ==
    [][(/\ PushStep
        /\ run.pc = "full_push"
        /\ run'.step.how = "pushed"
        /\ \/ CallsOf(run'.step.calls, "upload") # {}
           \/ CallsOf(run'.step.calls, "update") # {}) =>
          /\ notes[run'.step.id].sync_status = "local"
          /\ run'.step.id \notin run.pulled_notes]_vars

\* The fields of a note record that a push must leave alone.
Payload(note) ==
    [title |-> note.title, content |-> note.content, file_type |-> note.file_type,
     folder_id |-> note.folder_id, user_id |-> note.user_id]

\* C34: a push step (of sync_all or of the push phase of full_sync) changes
\* only gdrive_id, gdrive_modified and sync_status of the note it pushes and
\* the gdrive_id of that note's folder; it changes no title, content,
\* file_type or folder_id, no note whose sync_status is not local, and it
\* creates or deletes no note and no folder.
C34_PushFrame ==
    [][PushStep =>
         /\ DOMAIN run'.n = DOMAIN run.n
         /\ DOMAIN run'.f = DOMAIN run.f
         /\ \A i \in DOMAIN run.n :
               /\ Payload(run'.n[i]) = Payload(run.n[i])
               /\ (i # run'.step.id \/ run.n[i].sync_status # "local") => run'.n[i] = run.n[i]
         /\ \A k \in DOMAIN run.f :
               /\ [run'.f[k] EXCEPT !.gdrive_id = run.f[k].gdrive_id] = run.f[k]
               /\ run'.f[k] # run.f[k] => k = run.n[run'.step.id].folder_id
         /\ notes' = notes
         /\ folders' = folders]_vars

\* Notes are created and deleted by a connected user, and pulled.
NextDeleted ==
    \/ new_note(SyncUser, "a", "x", "md", None)
    \/ \E id \in DOMAIN notes : delete_note(SyncUser, id)
    \/ pull_from_drive_begin(SyncUser)
    \/ pull_from_drive_item
    \/ pull_from_drive_end

SpecDeleted == Init /\ [][NextDeleted]_vars

\* The remote files can take these ids.
RemoteFileIds == (MaxRemoteFolders + 1)..(MaxRemoteFolders + MaxRemoteFiles)

\* The remote file g belonged to a note that the user has deleted.  Under
\* SpecDeleted every remote file is uploaded by new_note for the note it
\* creates, and a note never loses its gdrive_id: an id that the remote store
\* has given out and that no note holds is the id of a deleted note's file,
\* whether the remote deletion removed the file or not.
DeletedNote(g) ==
    /\ g < NewFileId(drive)
    /\ \A i \in DOMAIN notes : notes[i].gdrive_id # g

\* C35: a note deleted by the user stays deleted: once delete_note has removed
\* the note whose remote file is g, whether the remote deletion succeeded or
\* failed, no pull puts a note with gdrive_id g into the catalog again.
C35_DeletedStaysDeleted ==
    [][\A g \in RemoteFileIds : DeletedNote(g) => DeletedNote(g)']_vars

\* full_sync's push step when datetime.now(timezone.utc) reads now: the local
\* clock is not the remote store's clock, and the stamp of a pushed note may
\* be earlier or later than the modifiedTime the remote store records.
full_sync_push_item_at(now) ==
    /\ run.pc = "full_push"
    /\ \E id \in run.todo : \E budget \in 0..NoFailure(run.f) :
       \E r \in PushNote(GDriveService(drive, budget), run.n, run.f, id, run.root, TRUE) :
          /\ run' = [run EXCEPT !.todo = @ \ {id},
                                !.n = IF r.s.ok
                                      THEN [r.n EXCEPT ![id].gdrive_modified = Aware(now)]
                                      ELSE r.n,
                                !.f = r.f,
                                !.count = Bump(@, IF r.s.ok THEN "pushed" ELSE "push_failed"),
                                !.step = [id |-> id,
                                          how |-> IF r.s.ok THEN "pushed" ELSE "push_failed",
                                          calls |-> r.s.calls],
                                !.processed = @ + 1,
                                !.stream = Append(@, Event("syncing",
                                               Percent(run.processed + 1, run.total_files)))]
          /\ drive' = r.s.d
    /\ UNCHANGED <<notes, folders, connected, last, mirror>>

\* Full syncs one after the other, with notes created locally and files
\* created and edited remotely in between, and any reading of the local clock at a push.
NextQuiet ==
    \/ new_note(SyncUser, "a", "x", "md", None)
    \/ \E parent \in DOMAIN drive.folders :
          /\ \A i \in DOMAIN drive.files : drive.files[i].name # "b.md"
          /\ remote_create("b.md", "text/markdown", parent, "x", TRUE)
    \/ \E file_id \in DOMAIN drive.files : remote_edit(file_id, "y")
    \/ full_sync_begin(SyncUser)
    \/ full_sync_pull_item
    \/ full_sync_commit
    \/ \E now \in 1..MaxTime : full_sync_push_item_at(now)
    \/ full_sync_end

SpecQuiet == InitFull /\ [][NextQuiet]_vars

\* The last request answered was a full sync that ran to its end and in which
\* no download and no push failed; nothing has been requested and nothing has
\* changed in the remote store since.
QuietSince ==
    /\ last.op = "full_sync"
    /\ last.status = "complete"
    /\ last.count.failed = 0
    /\ last.count.skipped = last.count.raised

Listed == {e \in list_all_files_recursive(drive, run.root, "") : ~e.is_folder}

\* C37: when a pull run completes, imported + updated + skipped is the number
\* of non-folder entries of the listing, and the notes handed to the mirror
\* are exactly the notes of the entries counted as imported or updated.
C37_PullAccounting ==
    [][/\ (run = Idle /\ run'.pc = "pull") => run'.pulled_notes = {}
       /\ (PullStep /\ run.pc = "pull") =>
             run'.pulled_notes =
                 run.pulled_notes \cup
                    (CASE run'.step.how = "imported" -> DOMAIN run'.n \ DOMAIN run.n
                       [] run'.step.how = "updated" -> {run.existing[run'.step.id]}
                       [] OTHER -> {})
       /\ (run.pc = "pull" /\ run' = Idle) =>
             /\ last'.count.imported + last'.count.updated + last'.count.skipped
                   = Cardinality(Listed)
             /\ last'.pulled_notes = run.pulled_notes
             /\ (last'.count.imported + last'.count.updated = 0) = (last'.pulled_notes = {})
             /\ Cardinality(last'.pulled_notes)
                   <= last'.count.imported + last'.count.updated]_vars

\* A pull has completed that imported one entry and skipped another whose
\* time comparison raised.
C37_Witness ==
    /\ last.op = "pull_from_drive"
    /\ last.status = "200"
    /\ last.count.imported > 0
    /\ last.count.raised > 0
    /\ last.count.imported + last.count.updated + last.count.skipped = 2
    /\ Cardinality(last.pulled_notes) = 1

\* Pulls over a remote store that holds the file of a note pushed by new_note
\* (no gdrive_modified stored, so a pull downloads it) and files in the Notes
\* folder and in a folder below it that have no note yet.
NextDownload ==
    \/ new_note(SyncUser, "a", "x", "md", None)
    \/ DOMAIN drive.folders = {1} /\ remote_create_folder("A", 1)
    \/ \E parent \in DOMAIN drive.folders :
          /\ \A i \in DOMAIN drive.files : drive.files[i].name # "b.md"
          /\ remote_create("b.md", "text/markdown", parent, "x", TRUE)
    \/ pull_from_drive_begin(SyncUser)
    \/ pull_from_drive_item
    \/ pull_from_drive_end

SpecDownload == Init /\ [][NextDownload]_vars

\* The fields of a note that a pull writes.
Pulled(note) ==
    [title |-> note.title, content |-> note.content, file_type |-> note.file_type,
     sync_status |-> note.sync_status, gdrive_modified |-> note.gdrive_modified]

\* The step of a pull loop whose download_file request failed.
DownloadFailed ==
    /\ PullStep
    /\ run'.step.how = "failed"
    /\ CallsOf(run'.step.calls, "download") # {}

\* C38: a failed download leaves no trace: for an entry that matches no note
\* the pull adds no note and no folder; for an entry that matches a note,
\* the note's title, content, file_type, sync_status and gdrive_modified stay
\* as they were.
C38_FailedDownloadNoTrace ==
    [][DownloadFailed =>
         IF PulledItem.id \in DOMAIN run.existing
         THEN /\ run.existing[PulledItem.id] \in DOMAIN run'.n
              /\ Pulled(run'.n[run.existing[PulledItem.id]])
                    = Pulled(run.n[run.existing[PulledItem.id]])
         ELSE /\ DOMAIN run'.n = DOMAIN run.n
              /\ DOMAIN run'.f = DOMAIN run.f
              /\ \A i \in DOMAIN run'.n :
                    run'.n[i].gdrive_id = PulledItem.id => run.n[i].gdrive_id = PulledItem.id]_vars

\* The download of an entry in a remote folder that has no local folder yet has
\* failed, and the session holds no folder and no note for it.
C38_Witness ==
    /\ run.pc \in {"pull", "full_pull"}
    /\ run.step.how = "failed"
    /\ run.step.id \notin DOMAIN run.existing
    /\ \E e \in Listed : e.id = run.step.id /\ PathParts(e.path) # <<>>
    /\ run.f = <<>>
    /\ \A i \in DOMAIN run.n : run.n[i].gdrive_id # run.step.id

====
